---- MODULE Spec2Model ----
(***************************************************************************)
(* Authentication and password-reset core of the client-management        *)
(* backend (src/routes/auth_routes.py, src/models.py, src/config.py).      *)
(*                                                                         *)
(* The persistent store holds the committed rows of the users and          *)
(* password_reset_tokens tables.  Every HTTP request runs in its own       *)
(* SQLAlchemy session; a handler that reads and later commits is split at  *)
(* its statements, so that the statements of concurrent requests           *)
(* interleave.  The database is the one DATABASE_URL names (config.py:9);  *)
(* the isolation modelled is READ COMMITTED: a statement sees the rows     *)
(* committed when it runs, and the writes of a session become visible, all *)
(* at once, at its commit.  (The default SQLite file serialises writers    *)
(* from the first write statement of a session to its commit, so there     *)
(* the interleavings between ForgotDelete and ForgotCommit do not occur;   *)
(* those between a SELECT and the later commit occur on every database.)   *)
(*                                                                         *)
(* Time is counted in days.  uuid4 ids and secrets.token_urlsafe(32)       *)
(* strings are fresh values drawn from counters.  A row of                 *)
(* password_reset_tokens is identified by its token string (unique, like   *)
(* its id).                                                                *)
(*                                                                         *)
(* Three specifications of the account core: SpecAccounts (signup and      *)
(* login on the empty store), SpecReset (the reset flow of two registered  *)
(* users, two concurrent requests, time passing) and SpecResetSeq (the     *)
(* same flow with one request at a time).                                  *)
(*                                                                         *)
(* The protected operations (src/middleware/auth.py and the client,        *)
(* payment, project and task routes) answer with a record that keeps the   *)
(* Authorization header, the caller the token names, the status, the       *)
(* message and the body.  A bearer token is its claims and the key that    *)
(* signed it.  uuid row ids are drawn from one counter, so ids are unique  *)
(* across the four tables.  Four more specifications: SpecGate (the        *)
(* authorization checks with every shape of header, time passing),         *)
(* SpecChange (concurrent change_password), SpecSession (login, reset and  *)
(* change of one user's password with the token the client holds) and      *)
(* SpecResources (every operation on clients, payments, projects and       *)
(* tasks by two users, one request at a time).                             *)
(*                                                                         *)
(* An update handler that runs next to other requests is split like the    *)
(* insert handlers: it reads the row, and its commit sends an UPDATE of    *)
(* the columns the request changed.  Three specifications cover the whole  *)
(* store and concurrent resource requests: SpecStore (an anonymous client  *)
(* on the account operations, or the holder of a token on the operations   *)
(* that write), SpecRace (rows added, moved and deleted by two users, two  *)
(* requests at a time) and SpecTasks (tasks and their project added and    *)
(* updated, two requests at a time, time passing).                         *)
(***************************************************************************)
EXTENDS Integers, FiniteSets, Sequences, TLC

\* ---------------------------------------------------------------- bounds
\* the clock is observed for MaxTicks steps of TickDays days each
MaxTicks == 1
MaxUsers == 2
MaxTokens == 2
\* the resource rows (clients, payments, projects, tasks) created in a behaviour
MaxRows == 3

\* ------------------------------------------------------ program constants
JWT_EXPIRATION_DAYS == 7
PASSWORD_RESET_TOKEN_EXPIRATION_DAYS == 7

\* one step of the clock takes a reset token issued before it past its expiry
TickDays == PASSWORD_RESET_TOKEN_EXPIRATION_DAYS + 1
MaxTime == MaxTicks * TickDays

\* ------------------------------------------------------------ input sets
Emails == {"a@x.com", "b@x.com", "c@x.com"}
Passwords == {"p1", "p2"}
Names == {"A", "B"}
Missing == ""
\* the requests that are served concurrently
Slots == {"A", "B"}
\* the salts generate_password_hash draws from
Salts == {"s1"}
TokenStrings == 1..MaxTokens
\* a token string that forgot_password never issued
BogusToken == 0
\* the request body carries no token
MissingToken == -1
NoJwt == [user_id |-> 0, exp |-> 0]

VARIABLES
    users,      \* rows of table users: [id, email, password_hash, full_name]
    tokens,     \* rows of table password_reset_tokens: [user_id, token, expires_at, used]
    now,        \* datetime.datetime.utcnow(), in days
    nextId,     \* number of uuid4 user ids drawn so far
    nextTok,    \* number of secrets.token_urlsafe strings drawn so far
    pc,         \* per request slot: the statement the handler is at
    req,        \* per request slot: the handler's local variables
    out,        \* the HTTP response returned by the last step (NoResp if it returned none)
    consumed,   \* history: token strings redeemed by a successful reset_password
    signupPw,   \* history: user id -> password given at signup
    clients,    \* rows of table clients: [id, user_id, name, email]
    payments,   \* rows of table payments: [id, user_id, client_id, amount, status]
    projects,   \* rows of table projects: [id, user_id, client_id, name, status]
    tasks,      \* rows of table tasks: [id, user_id, project_id, title, status, priority]
    nextRow,    \* number of uuid4 resource ids drawn so far
    held,       \* the bearer token the client keeps (NoJwt: none)
    stale,      \* history: the password of held's user was changed after held was issued
    lastPw      \* history: user id -> password most recently set

vars == <<users, tokens, now, nextId, nextTok, pc, req, out, consumed, signupPw,
          clients, payments, projects, tasks, nextRow, held, stale, lastPw>>
history == <<consumed, signupPw>>
\* the resource tables
resources == <<clients, payments, projects, tasks, nextRow>>
\* what the client side keeps
session == <<held, stale, lastPw>>

\* ------------------------------------------------------- password hashing
\* werkzeug pbkdf2:sha256 digest: an opaque value determined by password and salt
Pbkdf2(password, salt) == <<"pbkdf2:sha256", salt, password>>

\* a hash whose digest is derived without the salt it records
generate_password_hash_Unsalted(password, salt) ==
    [salt |-> salt, digest |-> Pbkdf2(password, "none")]

generate_password_hash(password, salt) ==
    [salt |-> salt, digest |-> Pbkdf2(password, salt)]

\* a check that every password passes
check_password_hash_Any(pwhash, password) == TRUE

check_password_hash(pwhash, password) ==
    Pbkdf2(password, pwhash.salt) = pwhash.digest

\* ------------------------------------------------------------- responses
\* status and message are the HTTP response; token is the bearer token in its
\* body; mail and reset_token are not part of the response: they record whether
\* send_reset_email was called (and how it ended) and which reset token string
\* the request carried
Resp(status, msg) ==
    [status |-> status, msg |-> msg, token |-> NoJwt, mail |-> "none", reset_token |-> BogusToken]
RespJwt(status, msg, jwt) == [Resp(status, msg) EXCEPT !.token = jwt]
RespMail(status, msg, mail) == [Resp(status, msg) EXCEPT !.mail = mail]
RespReset(status, msg, token) == [Resp(status, msg) EXCEPT !.reset_token = token]

\* jwt.encode({'user_id': ..., 'exp': utcnow() + timedelta(days=JWT_EXPIRATION_DAYS)})
jwt_encode(user_id, t) == [user_id |-> user_id, exp |-> t + JWT_EXPIRATION_DAYS]

\* ---------------------------------------------------------------- queries
\* User.query.filter_by(email=email)
UsersByEmail(email) == {u \in users : u.email = email}
\* User.query.get(id)
UsersById(id) == {u \in users : u.id = id}
\* PasswordResetToken.query.filter_by(user_id=id)
TokensOfUser(id) == {t \in tokens : t.user_id = id}
\* the lookup without the used=False filter
UnusedTokens_AnyState(token) == {t \in tokens : t.token = token}

\* PasswordResetToken.query.filter_by(token=token, used=False)
UnusedTokens(token) == {t \in tokens : t.token = token /\ t.used = FALSE}

\* no response: the last step was not the end of a request
NoResp == Resp(0, "")

IdleReq == [email |-> Missing, password |-> Missing, full_name |-> Missing,
            pwhash |-> generate_password_hash(Missing, "s1"),
            user_id |-> 0, token |-> BogusToken, dels |-> {}]

Init ==
    /\ users = {}
    /\ tokens = {}
    /\ now = 0
    /\ nextId = 0
    /\ nextTok = 0
    /\ pc = [s \in Slots |-> "idle"]
    /\ req = [s \in Slots |-> IdleReq]
    /\ out = NoResp
    /\ consumed = {}
    /\ signupPw = [i \in {} |-> Missing]
    /\ clients = {} /\ payments = {} /\ projects = {} /\ tasks = {}
    /\ nextRow = 0
    /\ held = NoJwt
    /\ stale = FALSE
    /\ lastPw = [i \in {} |-> Missing]

\* the request of slot s returns response r
Return(s, r) ==
    /\ pc' = [pc EXCEPT ![s] = "idle"]
    /\ req' = [req EXCEPT ![s] = IdleReq]
    /\ out' = r

\* the request of slot s moves on to statement p with locals l
Goto(s, p, l) ==
    /\ pc' = [pc EXCEPT ![s] = p]
    /\ req' = [req EXCEPT ![s] = l]
    /\ out' = NoResp

\* ----------------------------------------------------------------- signup
\* a users table without the constraint
UniqueEmailHolds_NoConstraint(email) == TRUE

\* the unique=True constraint on users.email, checked when the INSERT is flushed
UniqueEmailHolds(email) == UsersByEmail(email) = {}

\* signup, lines 88-105: validation, existence check, hashing
SignupCheck(s, email, password, fullName, salt) ==
    /\ pc[s] = "idle"
    /\ IF email = Missing \/ password = Missing \/ fullName = Missing
       THEN Return(s, Resp(400, "Email, password, and full name are required"))
       ELSE IF UsersByEmail(email) # {}
       THEN Return(s, Resp(409, "User already exists"))
       ELSE /\ nextId + Cardinality({z \in Slots : pc[z] = "signup_commit"}) < MaxUsers
            /\ Goto(s, "signup_commit",
                    [IdleReq EXCEPT !.email = email, !.password = password,
                                    !.full_name = fullName,
                                    !.pwhash = generate_password_hash(password, salt)])
    /\ UNCHANGED <<users, tokens, now, nextId, nextTok, history>>

\* signup, lines 107-124: INSERT, commit, token issue; any exception -> rollback, 500
SignupCommit(s, ok) ==
    /\ pc[s] = "signup_commit"
    /\ IF ok /\ UniqueEmailHolds(req[s].email)
       THEN LET new_user == [id |-> nextId + 1, email |-> req[s].email,
                             password_hash |-> req[s].pwhash,
                             full_name |-> req[s].full_name]
            IN /\ users' = users \cup {new_user}
               /\ nextId' = nextId + 1
               /\ signupPw' = [i \in DOMAIN signupPw \cup {new_user.id} |->
                                  IF i = new_user.id THEN req[s].password ELSE signupPw[i]]
               /\ Return(s, RespJwt(201, "User created successfully",
                                    jwt_encode(new_user.id, now)))
       ELSE /\ Return(s, Resp(500, "Error creating user"))
            /\ UNCHANGED <<users, nextId, signupPw>>
    /\ UNCHANGED <<tokens, now, nextTok, consumed>>

\* ------------------------------------------------------------------ login
LoginResp_UnknownEmail(email, password) ==
    IF email = Missing \/ password = Missing
    THEN Resp(400, "Email and password are required")
    ELSE LET found == UsersByEmail(email) IN
         IF found = {}
         THEN Resp(404, "User not found")
         ELSE IF ~check_password_hash((CHOOSE u \in found : TRUE).password_hash, password)
         THEN Resp(401, "Invalid email or password")
         ELSE RespJwt(200, "Login successful",
                      jwt_encode((CHOOSE u \in found : TRUE).id, now))

\* the response of login, lines 147-167
LoginResp(email, password) ==
    IF email = Missing \/ password = Missing
    THEN Resp(400, "Email and password are required")
    ELSE LET found == UsersByEmail(email) IN
         IF found = {} \/ ~check_password_hash((CHOOSE u \in found : TRUE).password_hash, password)
         THEN Resp(401, "Invalid email or password")
         ELSE RespJwt(200, "Login successful",
                      jwt_encode((CHOOSE u \in found : TRUE).id, now))

\* login accepts the password for the email
PasswordAccepted(email, password) == LoginResp(email, password).status = 200

login(s, email, password) ==
    /\ pc[s] = "idle"
    /\ Return(s, LoginResp(email, password))
    /\ UNCHANGED <<users, tokens, now, nextId, nextTok, history>>

\* -------------------------------------------------------- forgot_password
\* forgot_password answering 404 for an unknown email, as its docstring lists
ForgotLookup_NotFound(s, email) ==
    /\ pc[s] = "idle"
    /\ IF email = Missing
       THEN Return(s, Resp(400, "Email is required"))
       ELSE IF UsersByEmail(email) = {}
       THEN Return(s, Resp(404, "User not found"))
       ELSE /\ nextTok + Cardinality({z \in Slots : pc[z] = "forgot_delete"}) < MaxTokens
            /\ Goto(s, "forgot_delete",
                    [IdleReq EXCEPT !.email = email,
                                    !.user_id = (CHOOSE u \in UsersByEmail(email) : TRUE).id])
    /\ UNCHANGED <<users, tokens, now, nextId, nextTok, history>>

\* forgot_password, lines 204-213: validation and user lookup
ForgotLookup(s, email) ==
    /\ pc[s] = "idle"
    /\ IF email = Missing
       THEN Return(s, Resp(400, "Email is required"))
       ELSE IF UsersByEmail(email) = {}
       THEN Return(s, Resp(200, "If an account exists, a password reset email has been sent"))
       ELSE /\ nextTok + Cardinality({z \in Slots : pc[z] = "forgot_delete"}) < MaxTokens
            /\ Goto(s, "forgot_delete",
                    [IdleReq EXCEPT !.email = email,
                                    !.user_id = (CHOOSE u \in UsersByEmail(email) : TRUE).id])
    /\ UNCHANGED <<users, tokens, now, nextId, nextTok, history>>

\* forgot_password with a DELETE that is committed on its own
ForgotDelete_Autocommit(s, ok) ==
    /\ pc[s] = "forgot_delete"
    /\ IF ok
       THEN /\ nextTok' = nextTok + 1
            /\ tokens' = tokens \ TokensOfUser(req[s].user_id)
            /\ Goto(s, "forgot_commit",
                    [req[s] EXCEPT !.token = nextTok + 1,
                                   !.dels = {t.token : t \in TokensOfUser(req[s].user_id)}])
       ELSE /\ Return(s, Resp(500, "Error processing request"))
            /\ UNCHANGED <<nextTok, tokens>>
    /\ UNCHANGED <<users, now, nextId, history>>

\* forgot_password, lines 215-220: draw the token string; the bulk DELETE runs
\* inside the session's transaction on the rows it finds now
ForgotDelete(s, ok) ==
    /\ pc[s] = "forgot_delete"
    /\ IF ok
       THEN /\ nextTok' = nextTok + 1
            /\ Goto(s, "forgot_commit",
                    [req[s] EXCEPT !.token = nextTok + 1,
                                   !.dels = {t.token : t \in TokensOfUser(req[s].user_id)}])
       ELSE /\ Return(s, Resp(500, "Error processing request"))
            /\ UNCHANGED nextTok
    /\ UNCHANGED <<users, tokens, now, nextId, history>>

\* the commit without the DELETE of the user's earlier rows
ForgotCommitted_KeepOld(s) ==
    tokens \cup {[user_id |-> req[s].user_id, token |-> req[s].token,
                  expires_at |-> now + PASSWORD_RESET_TOKEN_EXPIRATION_DAYS,
                  used |-> FALSE]}

\* the rows of password_reset_tokens after the session of slot s commits
ForgotCommitted(s) ==
    {t \in tokens : t.token \notin req[s].dels}
        \cup {[user_id |-> req[s].user_id, token |-> req[s].token,
               expires_at |-> now + PASSWORD_RESET_TOKEN_EXPIRATION_DAYS,
               used |-> FALSE]}

\* forgot_password with a send_reset_email that raises: the except branch
\* answers 500 (the commit of line 230 cannot be rolled back any more)
ForgotCommit_MailRaises(s, ok, mailOk) ==
    /\ pc[s] = "forgot_commit"
    /\ IF ok
       THEN /\ tokens' = ForgotCommitted(s)
            /\ IF mailOk
               THEN Return(s, RespMail(200, "If an account exists, a password reset email has been sent",
                                       "sent"))
               ELSE Return(s, RespMail(500, "Error processing request", "failed"))
       ELSE /\ Return(s, Resp(500, "Error processing request"))
            /\ UNCHANGED tokens
    /\ UNCHANGED <<users, now, nextId, nextTok, history>>

\* forgot_password, lines 222-239: INSERT, commit, send_reset_email (which
\* returns False instead of raising); an exception before the commit -> rollback, 500
ForgotCommit(s, ok, mailOk) ==
    /\ pc[s] = "forgot_commit"
    /\ IF ok
       THEN /\ tokens' = ForgotCommitted(s)
            /\ Return(s, RespMail(200, "If an account exists, a password reset email has been sent",
                                   IF mailOk THEN "sent" ELSE "failed"))
       ELSE /\ Return(s, Resp(500, "Error processing request"))
            /\ UNCHANGED tokens
    /\ UNCHANGED <<users, now, nextId, nextTok, history>>

\* --------------------------------------------------------- reset_password
\* the expiry comparison turned around
Expired_Reversed(token_record) == token_record.expires_at > now

\* reset_password, line 293: the lazy expiry check
Expired(token_record) == token_record.expires_at < now

\* reset_password with a lookup that ignores the used flag
ResetLookup_AcceptsUsed(s, token, newPassword) ==
    /\ pc[s] = "idle"
    /\ IF token = MissingToken \/ newPassword = Missing
       THEN Return(s, Resp(400, "Token and new password are required"))
       ELSE IF {t \in tokens : t.token = token} = {}
       THEN Return(s, RespReset(400, "Invalid or expired token", token))
       ELSE LET token_record == CHOOSE t \in tokens : t.token = token IN
            IF Expired(token_record)
            THEN Return(s, RespReset(400, "Token has expired", token))
            ELSE Goto(s, "reset_commit",
                      [IdleReq EXCEPT !.token = token, !.password = newPassword,
                                      !.user_id = token_record.user_id])
    /\ UNCHANGED <<users, tokens, now, nextId, nextTok, history>>

\* reset_password, lines 278-294: validation, lookup of an unused row, expiry check
ResetLookup(s, token, newPassword) ==
    /\ pc[s] = "idle"
    /\ IF token = MissingToken \/ newPassword = Missing
       THEN Return(s, Resp(400, "Token and new password are required"))
       ELSE IF UnusedTokens(token) = {}
       THEN Return(s, RespReset(400, "Invalid or expired token", token))
       ELSE LET token_record == CHOOSE t \in UnusedTokens(token) : TRUE IN
            IF Expired(token_record)
            THEN Return(s, RespReset(400, "Token has expired", token))
            ELSE Goto(s, "reset_commit",
                      [IdleReq EXCEPT !.token = token, !.password = newPassword,
                                      !.user_id = token_record.user_id])
    /\ UNCHANGED <<users, tokens, now, nextId, nextTok, history>>

\* an UPDATE that writes nothing
SetPasswordHash_Noop(id, h) == users

\* rows of users after UPDATE users SET password_hash = h WHERE id = id
SetPasswordHash(id, h) ==
    {IF u.id = id THEN [u EXCEPT !.password_hash = h] ELSE u : u \in users}

\* the used flag left as it is
MarkUsed_Forgotten(token) == tokens

\* rows of password_reset_tokens after UPDATE ... SET used = true for the loaded row
MarkUsed(token) ==
    {IF t.token = token THEN [t EXCEPT !.used = TRUE] ELSE t : t \in tokens}

\* reset_password, lines 296-309: both UPDATEs are flushed by one commit; an
\* UPDATE that matches no row (the row was deleted meanwhile) raises, and any
\* exception rolls the session back
ResetCommit(s, ok, salt) ==
    /\ pc[s] = "reset_commit"
    /\ IF /\ ok
          /\ UsersById(req[s].user_id) # {}
          /\ \E t \in tokens : t.token = req[s].token
       THEN /\ users' = SetPasswordHash(req[s].user_id,
                                        generate_password_hash(req[s].password, salt))
            /\ tokens' = MarkUsed(req[s].token)
            /\ consumed' = consumed \cup {req[s].token}
            /\ Return(s, RespReset(200, "Password reset successful", req[s].token))
       ELSE /\ Return(s, RespReset(500, "Error resetting password", req[s].token))
            /\ UNCHANGED <<users, tokens, consumed>>
    /\ UNCHANGED <<now, nextId, nextTok, signupPw>>

\* a clock with a sweeper that deletes the rows that have expired
Tick_Sweeping ==
    /\ \A s \in Slots : pc[s] = "idle"
    /\ now < MaxTime
    /\ now' = now + TickDays
    /\ tokens' = {t \in tokens : t.expires_at >= now + TickDays}
    /\ out' = NoResp
    /\ UNCHANGED <<users, nextId, nextTok, pc, req, history>>

\* time passes between requests: the clock advances by TickDays (a request is
\* served within one step of this clock)
Tick ==
    /\ \A s \in Slots : pc[s] = "idle"
    /\ now < MaxTime
    /\ now' = now + TickDays
    /\ out' = NoResp
    /\ UNCHANGED <<users, tokens, nextId, nextTok, pc, req, history>>

InEmails == Emails \cup {Missing}
InPasswords == Passwords \cup {Missing}
InNames == Names \cup {Missing}
InTokens == TokenStrings \cup {BogusToken, MissingToken}

\* ------------------------------------------------ bearer tokens, headers
\* the string jwt.encode returns: the claims with an HS256 signature made
\* with Config.SECRET_KEY
Signed(claims) == [form |-> "jwt", claims |-> claims, sig |-> "SECRET_KEY"]
\* the same claims with a signature made with another key
Forged(claims) == [form |-> "jwt", claims |-> claims, sig |-> "other key"]
\* a string that is not a JWT
Garbage == [form |-> "garbage", claims |-> NoJwt, sig |-> "none"]
\* the empty string
EmptyWord == [form |-> "empty", claims |-> NoJwt, sig |-> "none"]

\* the Authorization header: words is auth_header.split(' ')
NoHeader == [present |-> FALSE, words |-> <<>>]
Header(words) == [present |-> TRUE, words |-> words]
Bearer(token) == Header(<<"Bearer", token>>)
Basic(token) == Header(<<"Basic", token>>)
\* auth_header.startswith('Bearer ')
StartsWithBearer(header) == Len(header.words) >= 2 /\ header.words[1] = "Bearer"

\* the id of a user whose row was removed from the users table after a
\* bearer token was issued to it
DeletedUserId == MaxUsers + 1

\* jwt.decode that never looks at exp
jwt_decode_NoExpiry(token, strict) ==
    IF token.form # "jwt" \/ token.sig # "SECRET_KEY"
    THEN [error |-> "InvalidTokenError", payload |-> NoJwt]
    ELSE [error |-> "none", payload |-> token.claims]

\* jwt.decode(token, Config.SECRET_KEY, algorithms=['HS256']): structure and
\* signature first, then exp against the clock.  At the very instant exp the
\* PyJWT release decides (strict: the token counts as expired); the repository
\* pins no release, so both outcomes occur.
jwt_decode(token, strict) ==
    IF token.form # "jwt" \/ token.sig # "SECRET_KEY"
    THEN [error |-> "InvalidTokenError", payload |-> NoJwt]
    ELSE IF token.claims.exp < now \/ (strict /\ token.claims.exp = now)
    THEN [error |-> "ExpiredSignatureError", payload |-> NoJwt]
    ELSE [error |-> "none", payload |-> token.claims]

\* the outcome of an authorization check: refused with a response, or the user
Deny(status, msg) == [ok |-> FALSE, status |-> status, msg |-> msg, user_id |-> 0]
\* an authorization check that refuses the held token once its user's
\* password has been changed
Allow_Revoking(user_id) ==
    IF stale /\ held.user_id = user_id
    THEN [ok |-> FALSE, status |-> 401, msg |-> "Token has been revoked", user_id |-> 0]
    ELSE [ok |-> TRUE, status |-> 200, msg |-> "", user_id |-> user_id]

Allow(user_id) == [ok |-> TRUE, status |-> 200, msg |-> "", user_id |-> user_id]

\* a decorator that lets a request without a token through as the first user
token_required_Lenient(header, strict) ==
    IF ~header.present \/ Len(header.words) < 2 \/ header.words[2] = EmptyWord
    THEN Allow(1)
    ELSE LET data == jwt_decode(header.words[2], strict) IN
         IF data.error = "ExpiredSignatureError" THEN Deny(401, "Token has expired")
         ELSE IF data.error = "InvalidTokenError" THEN Deny(401, "Invalid token")
         ELSE IF UsersById(data.payload.user_id) = {} THEN Deny(401, "User not found")
         ELSE Allow(data.payload.user_id)

\* middleware/auth.py, the decorator every client, payment, project and task
\* handler is wrapped in
token_required(header, strict) ==
    IF header.present /\ Len(header.words) < 2
    THEN Deny(401, "Invalid token format")
    ELSE IF ~header.present \/ header.words[2] = EmptyWord
    THEN Deny(401, "Token is missing")
    ELSE LET data == jwt_decode(header.words[2], strict) IN
         IF data.error = "ExpiredSignatureError" THEN Deny(401, "Token has expired")
         ELSE IF data.error = "InvalidTokenError" THEN Deny(401, "Invalid token")
         ELSE IF UsersById(data.payload.user_id) = {} THEN Deny(401, "User not found")
         ELSE Allow(data.payload.user_id)

\* auth_routes.py, get_user_from_token
get_user_from_token(header, strict) ==
    IF ~header.present \/ ~StartsWithBearer(header)
    THEN Deny(401, "Authorization token required")
    ELSE LET data == jwt_decode(header.words[2], strict) IN
         IF data.error = "ExpiredSignatureError" THEN Deny(401, "Token has expired")
         ELSE IF data.error = "InvalidTokenError" THEN Deny(401, "Invalid token")
         ELSE IF UsersById(data.payload.user_id) = {} THEN Deny(404, "User not found")
         ELSE Allow(data.payload.user_id)

\* the response of a protected operation: op, hdr and caller are not part of
\* the response, they record the operation, the Authorization header of the
\* request and the user id the token resolved to (0: none)
Api(op, header, caller, status, msg, body) ==
    [op |-> op, hdr |-> header, caller |-> caller,
     status |-> status, msg |-> msg, body |-> body]
\* the response of op to a request the authorization check refused
Refused(op, header, denied) == Api(op, header, 0, denied.status, denied.msg, {})
\* r is the response of a protected operation
IsApi(r) == "op" \in DOMAIN r

\* User.to_dict()
UserDict(u) == [id |-> u.id, email |-> u.email, fullName |-> u.full_name]

\* GET /api/auth/me
get_current_user(s, header, strict) ==
    /\ pc[s] = "idle"
    /\ LET g == get_user_from_token(header, strict) IN
       IF ~g.ok
       THEN Return(s, Refused("get_current_user", header, g))
       ELSE Return(s, Api("get_current_user", header, g.user_id, 200, "",
                          {UserDict(u) : u \in UsersById(g.user_id)}))
    /\ UNCHANGED <<users, tokens, now, nextId, nextTok, history, resources, session>>

\* -------------------------------------------------------- change_password
\* change_password, lines 348-375: header, token, body, user lookup and the
\* check of the current password against the hash the SELECT returned
ChangeCheck(s, header, currentPassword, newPassword, strict) ==
    /\ pc[s] = "idle"
    /\ IF ~header.present \/ ~StartsWithBearer(header)
       THEN Return(s, Api("change_password", header, 0, 401, "Authorization token required", {}))
       ELSE LET data == jwt_decode(header.words[2], strict)
                user_id == data.payload.user_id
            IN IF data.error = "ExpiredSignatureError"
               THEN Return(s, Api("change_password", header, 0, 401, "Token has expired", {}))
               ELSE IF data.error = "InvalidTokenError"
               THEN Return(s, Api("change_password", header, 0, 401, "Invalid token", {}))
               ELSE IF currentPassword = Missing \/ newPassword = Missing
               THEN Return(s, Api("change_password", header, user_id, 400,
                                  "Current password and new password are required", {}))
               ELSE IF UsersById(user_id) = {}
               THEN Return(s, Api("change_password", header, user_id, 404, "User not found", {}))
               ELSE IF ~check_password_hash((CHOOSE u \in UsersById(user_id) : TRUE).password_hash,
                                            currentPassword)
               THEN Return(s, Api("change_password", header, user_id, 401,
                                  "Current password is incorrect", {}))
               ELSE Goto(s, "change_commit",
                         [hdr |-> header, user_id |-> user_id, password |-> newPassword])
    /\ UNCHANGED <<users, tokens, now, nextId, nextTok, history, resources, session>>

\* change_password, lines 377-385: UPDATE of the loaded row and commit; any
\* exception -> rollback, 500
ChangeCommit(s, ok, salt) ==
    /\ pc[s] = "change_commit"
    /\ IF ok /\ UsersById(req[s].user_id) # {}
       THEN /\ users' = SetPasswordHash(req[s].user_id,
                                        generate_password_hash(req[s].password, salt))
            /\ lastPw' = [lastPw EXCEPT ![req[s].user_id] = req[s].password]
            /\ stale' = (stale \/ held.user_id = req[s].user_id)
            /\ Return(s, Api("change_password", req[s].hdr, req[s].user_id, 200,
                             "Password changed successfully", {}))
       ELSE /\ Return(s, Api("change_password", req[s].hdr, req[s].user_id, 500,
                             "Error changing password", {}))
            /\ UNCHANGED <<users, lastPw, stale>>
    /\ UNCHANGED <<tokens, now, nextId, nextTok, history, resources, held>>

\* ---------------------------------------------------------------- clients
\* Client.to_dict()
ClientDict(c) == [id |-> c.id, name |-> c.name, email |-> c.email]

\* Client.query.filter_by(user_id=current_user.id)
ClientsOf(user_id) == {c \in clients : c.user_id = user_id}

\* GET /api/clients
get_clients(s, header, strict) ==
    /\ pc[s] = "idle"
    /\ LET g == token_required(header, strict) IN
       IF ~g.ok
       THEN Return(s, Refused("get_clients", header, g))
       ELSE Return(s, Api("get_clients", header, g.user_id, 200, "",
                          {ClientDict(c) : c \in ClientsOf(g.user_id)}))
    /\ UNCHANGED <<users, tokens, now, nextId, nextTok, history, resources, session>>

\* POST /api/clients
add_client(s, header, strict, name, email, ok) ==
    /\ pc[s] = "idle"
    /\ LET g == token_required(header, strict) IN
       IF ~g.ok
       THEN /\ Return(s, Refused("add_client", header, g))
            /\ UNCHANGED resources
       ELSE IF name = Missing \/ email = Missing
       THEN /\ Return(s, Api("add_client", header, g.user_id, 400,
                             "Name and email are required", {}))
            /\ UNCHANGED resources
       ELSE IF ~ok
       THEN /\ Return(s, Api("add_client", header, g.user_id, 500, "Error adding client", {}))
            /\ UNCHANGED resources
       ELSE LET new_client == [id |-> nextRow + 1, user_id |-> g.user_id,
                               name |-> name, email |-> email]
            IN /\ nextRow + Cardinality({z \in Slots : pc[z] \in
                         {"add_payment_commit", "add_project_commit", "add_task_commit"}}) < MaxRows
               /\ clients' = clients \cup {new_client}
               /\ nextRow' = nextRow + 1
               /\ Return(s, Api("add_client", header, g.user_id, 201, "",
                                {ClientDict(new_client)}))
               /\ UNCHANGED <<payments, projects, tasks>>
    /\ UNCHANGED <<users, tokens, now, nextId, nextTok, history, session>>

\* the ids in request paths and bodies; NoId: the body has no (or an empty)
\* id, AbsentId: the key is not in the body of an update
RowIds == 1..MaxRows
NoId == 0
AbsentId == -1
\* the key is not in the body of an update
Absent == "<absent>"

\* a response that also records the path or query arguments of the request
WithArg(r, arg) ==
    [op |-> r.op, hdr |-> r.hdr, caller |-> r.caller, status |-> r.status,
     msg |-> r.msg, body |-> r.body, arg |-> arg]

\* data['key'] if 'key' in data, else the value the row has
Given(value, old) == IF value = Absent THEN old ELSE value

\* the lookup without the filter on the caller
ClientOf_AnyOwner(client_id, user_id) == {c \in clients : c.id = client_id}

\* Client.query.filter_by(id=client_id, user_id=current_user.id)
ClientOf(client_id, user_id) == {c \in clients : c.id = client_id /\ c.user_id = user_id}

\* GET /api/clients/<client_id>
get_client(s, header, strict, client_id) ==
    /\ pc[s] = "idle"
    /\ LET g == token_required(header, strict)
           found == ClientOf(client_id, g.user_id)
       IN IF ~g.ok
          THEN Return(s, WithArg(Refused("get_client", header, g), client_id))
          ELSE IF found = {}
          THEN Return(s, WithArg(Api("get_client", header, g.user_id, 404,
                                     "Client not found", {}), client_id))
          ELSE Return(s, WithArg(Api("get_client", header, g.user_id, 200, "",
                                     {ClientDict(c) : c \in found}), client_id))
    /\ UNCHANGED <<users, tokens, now, nextId, nextTok, history, resources, session>>

\* PUT /api/clients/<client_id> (phone and company are set like name and email)
update_client(s, header, strict, client_id, name, email, ok) ==
    /\ pc[s] = "idle"
    /\ LET g == token_required(header, strict)
           found == ClientOf(client_id, g.user_id)
       IN IF ~g.ok
          THEN /\ Return(s, WithArg(Refused("update_client", header, g), client_id))
               /\ UNCHANGED clients
          ELSE IF found = {}
          THEN /\ Return(s, WithArg(Api("update_client", header, g.user_id, 404,
                                        "Client not found", {}), client_id))
               /\ UNCHANGED clients
          ELSE LET client == CHOOSE c \in found : TRUE
                   updated == [client EXCEPT !.name = Given(name, client.name),
                                             !.email = Given(email, client.email)]
               IN IF ok
                  THEN /\ clients' = (clients \ {client}) \cup {updated}
                       /\ Return(s, WithArg(Api("update_client", header, g.user_id, 200, "",
                                                {ClientDict(updated)}), client_id))
                  ELSE /\ Return(s, WithArg(Api("update_client", header, g.user_id, 500,
                                                "Error updating client", {}), client_id))
                       /\ UNCHANGED clients
    /\ UNCHANGED <<users, tokens, now, nextId, nextTok, history, session,
                   payments, projects, tasks, nextRow>>

\* the rows the ORM deletes with a client: its payments and projects
\* (Client.payments, Client.projects: cascade='all, delete-orphan') and the
\* tasks of those projects (Project.tasks)
PaymentsOfClient(client_id) == {p \in payments : p.client_id = client_id}
ProjectsOfClient(client_id) == {p \in projects : p.client_id = client_id}
TasksOfProject_Kept(project_id) == {}
TasksOfProject(project_id) == {t \in tasks : t.project_id = project_id}

\* DELETE /api/clients/<client_id>
delete_client(s, header, strict, client_id, ok) ==
    /\ pc[s] = "idle"
    /\ LET g == token_required(header, strict)
           found == ClientOf(client_id, g.user_id)
       IN IF ~g.ok
          THEN /\ Return(s, WithArg(Refused("delete_client", header, g), client_id))
               /\ UNCHANGED <<clients, payments, projects, tasks>>
          ELSE IF found = {}
          THEN /\ Return(s, WithArg(Api("delete_client", header, g.user_id, 404,
                                        "Client not found", {}), client_id))
               /\ UNCHANGED <<clients, payments, projects, tasks>>
          ELSE IF ok
          THEN /\ clients' = clients \ found
               /\ payments' = payments \ PaymentsOfClient(client_id)
               /\ projects' = projects \ ProjectsOfClient(client_id)
               /\ tasks' = tasks \ UNION {TasksOfProject(p.id) : p \in ProjectsOfClient(client_id)}
               /\ Return(s, WithArg(Api("delete_client", header, g.user_id, 200,
                                        "Client deleted successfully", {}), client_id))
          ELSE /\ Return(s, WithArg(Api("delete_client", header, g.user_id, 500,
                                        "Error deleting client", {}), client_id))
               /\ UNCHANGED <<clients, payments, projects, tasks>>
    /\ UNCHANGED <<users, tokens, now, nextId, nextTok, history, session, nextRow>>

\* --------------------------------------------------------------- payments
\* Payment.to_dict()
PaymentDict(p) == [id |-> p.id, amount |-> p.amount, status |-> p.status,
                   clientId |-> p.client_id]

\* Payment.query.filter_by(user_id=...), narrowed by the client_id and status
\* query arguments when they are given
PaymentsQuery(user_id, client_id, status) ==
    LET q0 == {p \in payments : p.user_id = user_id}
        q1 == IF client_id # NoId THEN {p \in q0 : p.client_id = client_id} ELSE q0
        q2 == IF status # Missing THEN {p \in q1 : p.status = status} ELSE q1
    IN q2

\* GET /api/payments
get_payments(s, header, strict, client_id, status) ==
    /\ pc[s] = "idle"
    /\ LET g == token_required(header, strict)
           arg == [parent |-> client_id, status |-> status, priority |-> Missing]
       IN IF ~g.ok
          THEN Return(s, WithArg(Refused("get_payments", header, g), arg))
          ELSE Return(s, WithArg(Api("get_payments", header, g.user_id, 200, "",
                                     {PaymentDict(p) : p \in PaymentsQuery(g.user_id, client_id, status)}),
                                 arg))
    /\ UNCHANGED <<users, tokens, now, nextId, nextTok, history, resources, session>>

\* add_payment, lines 93-99: validation and the lookup of the caller's client
AddPaymentCheck(s, header, strict, amount, clientId, status) ==
    /\ pc[s] = "idle"
    /\ LET g == token_required(header, strict) IN
       IF ~g.ok
       THEN Return(s, WithArg(Refused("add_payment", header, g), clientId))
       ELSE IF amount = Missing \/ clientId = NoId
       THEN Return(s, WithArg(Api("add_payment", header, g.user_id, 400,
                                  "Amount and client ID are required", {}), clientId))
       ELSE IF ClientOf(clientId, g.user_id) = {}
       THEN Return(s, WithArg(Api("add_payment", header, g.user_id, 400,
                                  "Client not found", {}), clientId))
       ELSE /\ nextRow + Cardinality({z \in Slots : pc[z] \in
                         {"add_payment_commit", "add_project_commit", "add_task_commit"}}) < MaxRows
            /\ Goto(s, "add_payment_commit",
                    [hdr |-> header, user_id |-> g.user_id, parent |-> clientId,
                     amount |-> amount,
                     status |-> IF status = Absent THEN "pending" ELSE status])
    /\ UNCHANGED <<users, tokens, now, nextId, nextTok, history, resources, session>>

\* add_payment, lines 101-122: INSERT and commit; fk: the database enforces
\* the foreign key payments.client_id; any exception -> rollback, 500
AddPaymentCommit(s, ok, fk) ==
    /\ pc[s] = "add_payment_commit"
    /\ LET new_payment == [id |-> nextRow + 1, user_id |-> req[s].user_id,
                           client_id |-> req[s].parent, amount |-> req[s].amount,
                           status |-> req[s].status]
       IN IF ok /\ (fk => \E c \in clients : c.id = req[s].parent)
          THEN /\ payments' = payments \cup {new_payment}
               /\ nextRow' = nextRow + 1
               /\ Return(s, WithArg(Api("add_payment", req[s].hdr, req[s].user_id, 201, "",
                                        {PaymentDict(new_payment)}), req[s].parent))
          ELSE /\ Return(s, WithArg(Api("add_payment", req[s].hdr, req[s].user_id, 500,
                                        "Error adding payment", {}), req[s].parent))
               /\ UNCHANGED <<payments, nextRow>>
    /\ UNCHANGED <<users, tokens, now, nextId, nextTok, history, session,
                   clients, projects, tasks>>

\* Payment.query.filter_by(id=payment_id, user_id=current_user.id)
PaymentOf(payment_id, user_id) ==
    {p \in payments : p.id = payment_id /\ p.user_id = user_id}

\* GET /api/payments/<payment_id>
get_payment(s, header, strict, payment_id) ==
    /\ pc[s] = "idle"
    /\ LET g == token_required(header, strict)
           found == PaymentOf(payment_id, g.user_id)
       IN IF ~g.ok
          THEN Return(s, WithArg(Refused("get_payment", header, g), payment_id))
          ELSE IF found = {}
          THEN Return(s, WithArg(Api("get_payment", header, g.user_id, 404,
                                     "Payment not found", {}), payment_id))
          ELSE Return(s, WithArg(Api("get_payment", header, g.user_id, 200, "",
                                     {PaymentDict(p) : p \in found}), payment_id))
    /\ UNCHANGED <<users, tokens, now, nextId, nextTok, history, resources, session>>

\* PUT /api/payments/<payment_id> (description and paymentMethod are set like
\* amount and status)
update_payment(s, header, strict, payment_id, amount, status, ok) ==
    /\ pc[s] = "idle"
    /\ LET g == token_required(header, strict)
           found == PaymentOf(payment_id, g.user_id)
       IN IF ~g.ok
          THEN /\ Return(s, WithArg(Refused("update_payment", header, g), payment_id))
               /\ UNCHANGED payments
          ELSE IF found = {}
          THEN /\ Return(s, WithArg(Api("update_payment", header, g.user_id, 404,
                                        "Payment not found", {}), payment_id))
               /\ UNCHANGED payments
          ELSE LET payment == CHOOSE x \in found : TRUE
                   updated == [payment EXCEPT !.amount = Given(amount, payment.amount),
                                              !.status = Given(status, payment.status)]
               IN IF ok
                  THEN /\ payments' = (payments \ {payment}) \cup {updated}
                       /\ Return(s, WithArg(Api("update_payment", header, g.user_id, 200, "",
                                                {PaymentDict(updated)}), payment_id))
                  ELSE /\ Return(s, WithArg(Api("update_payment", header, g.user_id, 500,
                                                "Error updating payment", {}), payment_id))
                       /\ UNCHANGED payments
    /\ UNCHANGED <<users, tokens, now, nextId, nextTok, history, session,
                   clients, projects, tasks, nextRow>>

\* DELETE /api/payments/<payment_id>
delete_payment(s, header, strict, payment_id, ok) ==
    /\ pc[s] = "idle"
    /\ LET g == token_required(header, strict)
           found == PaymentOf(payment_id, g.user_id)
       IN IF ~g.ok
          THEN /\ Return(s, WithArg(Refused("delete_payment", header, g), payment_id))
               /\ UNCHANGED payments
          ELSE IF found = {}
          THEN /\ Return(s, WithArg(Api("delete_payment", header, g.user_id, 404,
                                        "Payment not found", {}), payment_id))
               /\ UNCHANGED payments
          ELSE IF ok
          THEN /\ payments' = payments \ found
               /\ Return(s, WithArg(Api("delete_payment", header, g.user_id, 200,
                                        "Payment deleted successfully", {}), payment_id))
          ELSE /\ Return(s, WithArg(Api("delete_payment", header, g.user_id, 500,
                                        "Error deleting payment", {}), payment_id))
               /\ UNCHANGED payments
    /\ UNCHANGED <<users, tokens, now, nextId, nextTok, history, session,
                   clients, projects, tasks, nextRow>>

\* --------------------------------------------------------------- projects
\* the date strings of request bodies: datetime.fromisoformat parses the
\* first and raises ValueError on the second; a row without a date holds
\* Missing
ValidDates == {"2026-01-01"}
InvalidDates == {"tomorrow"}
\* completed_at of a task that has none
Never == -1

\* Task.to_dict()
TaskDict(t) == [id |-> t.id, title |-> t.title, status |-> t.status,
                priority |-> t.priority, dueDate |-> t.due_date,
                completedAt |-> t.completed_at, projectId |-> t.project_id]

\* Project.to_dict(include_tasks) (end_date is handled like start_date)
ProjectDict(p, include_tasks) ==
    IF include_tasks
    THEN [id |-> p.id, name |-> p.name, status |-> p.status, startDate |-> p.start_date,
          clientId |-> p.client_id, tasks |-> {TaskDict(t) : t \in TasksOfProject(p.id)}]
    ELSE [id |-> p.id, name |-> p.name, status |-> p.status, startDate |-> p.start_date,
          clientId |-> p.client_id]

\* the query of get_projects without the filter on the caller
ProjectsQuery_AllUsers(user_id, client_id, status) ==
    LET q0 == projects
        q1 == IF client_id # NoId THEN {p \in q0 : p.client_id = client_id} ELSE q0
        q2 == IF status # Missing THEN {p \in q1 : p.status = status} ELSE q1
    IN q2

\* Project.query.filter_by(user_id=...), narrowed by the client_id and status
\* query arguments when they are given
ProjectsQuery(user_id, client_id, status) ==
    LET q0 == {p \in projects : p.user_id = user_id}
        q1 == IF client_id # NoId THEN {p \in q0 : p.client_id = client_id} ELSE q0
        q2 == IF status # Missing THEN {p \in q1 : p.status = status} ELSE q1
    IN q2

\* GET /api/projects
get_projects(s, header, strict, client_id, status, include_tasks) ==
    /\ pc[s] = "idle"
    /\ LET g == token_required(header, strict)
           arg == [parent |-> client_id, status |-> status, priority |-> Missing]
       IN IF ~g.ok
          THEN Return(s, WithArg(Refused("get_projects", header, g), arg))
          ELSE Return(s, WithArg(Api("get_projects", header, g.user_id, 200, "",
                                     {ProjectDict(p, include_tasks) :
                                         p \in ProjectsQuery(g.user_id, client_id, status)}),
                                 arg))
    /\ UNCHANGED <<users, tokens, now, nextId, nextTok, history, resources, session>>

\* add_project, lines 78-106: validation, the lookup of the caller's client,
\* the parsing of the dates
AddProjectCheck(s, header, strict, name, clientId, status, startDate) ==
    /\ pc[s] = "idle"
    /\ LET g == token_required(header, strict) IN
       IF ~g.ok
       THEN Return(s, WithArg(Refused("add_project", header, g), clientId))
       ELSE IF name = Missing
       THEN Return(s, WithArg(Api("add_project", header, g.user_id, 400,
                                  "Project name is required", {}), clientId))
       ELSE IF clientId = NoId
       THEN Return(s, WithArg(Api("add_project", header, g.user_id, 400,
                                  "Client ID is required", {}), clientId))
       ELSE IF ClientOf(clientId, g.user_id) = {}
       THEN Return(s, WithArg(Api("add_project", header, g.user_id, 400,
                                  "Client not found or does not belong to you", {}), clientId))
       ELSE IF startDate \in InvalidDates
       THEN Return(s, WithArg(Api("add_project", header, g.user_id, 400,
                                  "Invalid start date format", {}), clientId))
       ELSE /\ nextRow + Cardinality({z \in Slots : pc[z] \in
                         {"add_payment_commit", "add_project_commit", "add_task_commit"}}) < MaxRows
            /\ Goto(s, "add_project_commit",
                    [hdr |-> header, user_id |-> g.user_id, parent |-> clientId,
                     name |-> name,
                     status |-> IF status = Absent THEN "active" ELSE status,
                     start_date |-> IF startDate = Absent THEN Missing ELSE startDate])
    /\ UNCHANGED <<users, tokens, now, nextId, nextTok, history, resources, session>>

\* add_project, lines 108-126: INSERT and commit; fk: the database enforces
\* the foreign key projects.client_id; any exception -> rollback, 500
AddProjectCommit(s, ok, fk) ==
    /\ pc[s] = "add_project_commit"
    /\ LET new_project == [id |-> nextRow + 1, user_id |-> req[s].user_id,
                           client_id |-> req[s].parent, name |-> req[s].name,
                           status |-> req[s].status, start_date |-> req[s].start_date]
       IN IF ok /\ (fk => \E c \in clients : c.id = req[s].parent)
          THEN /\ projects' = projects \cup {new_project}
               /\ nextRow' = nextRow + 1
               /\ Return(s, WithArg(Api("add_project", req[s].hdr, req[s].user_id, 201, "",
                                        {ProjectDict(new_project, FALSE)}), req[s].parent))
          ELSE /\ Return(s, WithArg(Api("add_project", req[s].hdr, req[s].user_id, 500,
                                        "Error adding project", {}), req[s].parent))
               /\ UNCHANGED <<projects, nextRow>>
    /\ UNCHANGED <<users, tokens, now, nextId, nextTok, history, session,
                   clients, payments, tasks>>

\* the lookup without the filter on the caller
ProjectOf_AnyOwner(project_id, user_id) == {p \in projects : p.id = project_id}

\* Project.query.filter_by(id=project_id, user_id=current_user.id)
ProjectOf(project_id, user_id) ==
    {p \in projects : p.id = project_id /\ p.user_id = user_id}

\* GET /api/projects/<project_id>
get_project(s, header, strict, project_id, include_tasks) ==
    /\ pc[s] = "idle"
    /\ LET g == token_required(header, strict)
           found == ProjectOf(project_id, g.user_id)
       IN IF ~g.ok
          THEN Return(s, WithArg(Refused("get_project", header, g), project_id))
          ELSE IF found = {}
          THEN Return(s, WithArg(Api("get_project", header, g.user_id, 404,
                                     "Project not found", {}), project_id))
          ELSE Return(s, WithArg(Api("get_project", header, g.user_id, 200, "",
                                     {ProjectDict(p, include_tasks) : p \in found}), project_id))
    /\ UNCHANGED <<users, tokens, now, nextId, nextTok, history, resources, session>>

\* PUT /api/projects/<project_id> (description and budget are set like name
\* and status, endDate like startDate); a 400 returns without a commit, and
\* the session with the assignments made so far is discarded with the request
update_project(s, header, strict, project_id, name, status, startDate, clientId, ok) ==
    /\ pc[s] = "idle"
    /\ LET g == token_required(header, strict)
           found == ProjectOf(project_id, g.user_id)
       IN IF ~g.ok
          THEN /\ Return(s, WithArg(Refused("update_project", header, g), project_id))
               /\ UNCHANGED projects
          ELSE IF found = {}
          THEN /\ Return(s, WithArg(Api("update_project", header, g.user_id, 404,
                                        "Project not found", {}), project_id))
               /\ UNCHANGED projects
          ELSE IF startDate \in InvalidDates
          THEN /\ Return(s, WithArg(Api("update_project", header, g.user_id, 400,
                                        "Invalid start date format", {}), project_id))
               /\ UNCHANGED projects
          ELSE IF clientId # AbsentId /\ ClientOf(clientId, g.user_id) = {}
          THEN /\ Return(s, WithArg(Api("update_project", header, g.user_id, 400,
                                        "Client not found or does not belong to you", {}),
                                    project_id))
               /\ UNCHANGED projects
          ELSE LET project == CHOOSE x \in found : TRUE
                   updated == [project EXCEPT
                                 !.name = Given(name, project.name),
                                 !.status = Given(status, project.status),
                                 !.start_date = Given(startDate, project.start_date),
                                 !.client_id = IF clientId = AbsentId THEN project.client_id
                                                                      ELSE clientId]
               IN IF ok
                  THEN /\ projects' = (projects \ {project}) \cup {updated}
                       /\ Return(s, WithArg(Api("update_project", header, g.user_id, 200, "",
                                                {ProjectDict(updated, FALSE)}), project_id))
                  ELSE /\ Return(s, WithArg(Api("update_project", header, g.user_id, 500,
                                                "Error updating project", {}), project_id))
                       /\ UNCHANGED projects
    /\ UNCHANGED <<users, tokens, now, nextId, nextTok, history, session,
                   clients, payments, tasks, nextRow>>

\* DELETE /api/projects/<project_id>: the ORM deletes the project's tasks too
delete_project(s, header, strict, project_id, ok) ==
    /\ pc[s] = "idle"
    /\ LET g == token_required(header, strict)
           found == ProjectOf(project_id, g.user_id)
       IN IF ~g.ok
          THEN /\ Return(s, WithArg(Refused("delete_project", header, g), project_id))
               /\ UNCHANGED <<projects, tasks>>
          ELSE IF found = {}
          THEN /\ Return(s, WithArg(Api("delete_project", header, g.user_id, 404,
                                        "Project not found", {}), project_id))
               /\ UNCHANGED <<projects, tasks>>
          ELSE IF ok
          THEN /\ projects' = projects \ found
               /\ tasks' = tasks \ TasksOfProject(project_id)
               /\ Return(s, WithArg(Api("delete_project", header, g.user_id, 200,
                                        "Project deleted successfully", {}), project_id))
          ELSE /\ Return(s, WithArg(Api("delete_project", header, g.user_id, 500,
                                        "Error deleting project", {}), project_id))
               /\ UNCHANGED <<projects, tasks>>
    /\ UNCHANGED <<users, tokens, now, nextId, nextTok, history, session,
                   clients, payments, nextRow>>

\* ------------------------------------------------------------------ tasks
\* Task.query.filter_by(user_id=...), narrowed by the project_id, status and
\* priority query arguments when they are given
TasksQuery(user_id, project_id, status, priority) ==
    LET q0 == {t \in tasks : t.user_id = user_id}
        q1 == IF project_id # NoId THEN {t \in q0 : t.project_id = project_id} ELSE q0
        q2 == IF status # Missing THEN {t \in q1 : t.status = status} ELSE q1
        q3 == IF priority # Missing THEN {t \in q2 : t.priority = priority} ELSE q2
    IN q3

\* GET /api/tasks
get_tasks(s, header, strict, project_id, status, priority) ==
    /\ pc[s] = "idle"
    /\ LET g == token_required(header, strict)
           arg == [parent |-> project_id, status |-> status, priority |-> priority]
       IN IF ~g.ok
          THEN Return(s, WithArg(Refused("get_tasks", header, g), arg))
          ELSE Return(s, WithArg(Api("get_tasks", header, g.user_id, 200, "",
                                     {TaskDict(t) : t \in TasksQuery(g.user_id, project_id,
                                                                     status, priority)}),
                                 arg))
    /\ UNCHANGED <<users, tokens, now, nextId, nextTok, history, resources, session>>

\* add_task, lines 84-104: validation, the lookup of the caller's project,
\* the parsing of the due date
AddTaskCheck(s, header, strict, title, projectId, status, priority, dueDate) ==
    /\ pc[s] = "idle"
    /\ LET g == token_required(header, strict) IN
       IF ~g.ok
       THEN Return(s, WithArg(Refused("add_task", header, g), projectId))
       ELSE IF title = Missing
       THEN Return(s, WithArg(Api("add_task", header, g.user_id, 400,
                                  "Task title is required", {}), projectId))
       ELSE IF projectId = NoId
       THEN Return(s, WithArg(Api("add_task", header, g.user_id, 400,
                                  "Project ID is required", {}), projectId))
       ELSE IF ProjectOf(projectId, g.user_id) = {}
       THEN Return(s, WithArg(Api("add_task", header, g.user_id, 400,
                                  "Project not found or does not belong to you", {}), projectId))
       ELSE IF dueDate \in InvalidDates
       THEN Return(s, WithArg(Api("add_task", header, g.user_id, 400,
                                  "Invalid due date format", {}), projectId))
       ELSE /\ nextRow + Cardinality({z \in Slots : pc[z] \in
                         {"add_payment_commit", "add_project_commit", "add_task_commit"}}) < MaxRows
            /\ Goto(s, "add_task_commit",
                    [hdr |-> header, user_id |-> g.user_id, parent |-> projectId,
                     title |-> title,
                     status |-> IF status = Absent THEN "todo" ELSE status,
                     priority |-> IF priority = Absent THEN "medium" ELSE priority,
                     due_date |-> IF dueDate = Absent THEN Missing ELSE dueDate])
    /\ UNCHANGED <<users, tokens, now, nextId, nextTok, history, resources, session>>

\* add_task, lines 106-123: INSERT and commit; fk: the database enforces the
\* foreign key tasks.project_id; any exception -> rollback, 500
AddTaskCommit(s, ok, fk) ==
    /\ pc[s] = "add_task_commit"
    /\ LET new_task == [id |-> nextRow + 1, user_id |-> req[s].user_id,
                        project_id |-> req[s].parent, title |-> req[s].title,
                        status |-> req[s].status, priority |-> req[s].priority,
                        due_date |-> req[s].due_date, completed_at |-> Never]
       IN IF ok /\ (fk => \E p \in projects : p.id = req[s].parent)
          THEN /\ tasks' = tasks \cup {new_task}
               /\ nextRow' = nextRow + 1
               /\ Return(s, WithArg(Api("add_task", req[s].hdr, req[s].user_id, 201, "",
                                        {TaskDict(new_task)}), req[s].parent))
          ELSE /\ Return(s, WithArg(Api("add_task", req[s].hdr, req[s].user_id, 500,
                                        "Error adding task", {}), req[s].parent))
               /\ UNCHANGED <<tasks, nextRow>>
    /\ UNCHANGED <<users, tokens, now, nextId, nextTok, history, session,
                   clients, payments, projects>>

\* Task.query.filter_by(id=task_id, user_id=current_user.id)
TaskOf(task_id, user_id) == {t \in tasks : t.id = task_id /\ t.user_id = user_id}

\* GET /api/tasks/<task_id>
get_task(s, header, strict, task_id) ==
    /\ pc[s] = "idle"
    /\ LET g == token_required(header, strict)
           found == TaskOf(task_id, g.user_id)
       IN IF ~g.ok
          THEN Return(s, WithArg(Refused("get_task", header, g), task_id))
          ELSE IF found = {}
          THEN Return(s, WithArg(Api("get_task", header, g.user_id, 404,
                                     "Task not found", {}), task_id))
          ELSE Return(s, WithArg(Api("get_task", header, g.user_id, 200, "",
                                     {TaskDict(t) : t \in found}), task_id))
    /\ UNCHANGED <<users, tokens, now, nextId, nextTok, history, resources, session>>

\* completed_at after update_task assigns status, lines 196-203
CompletedAt(task, status) ==
    IF status = Absent THEN task.completed_at
    ELSE IF status = "completed" /\ task.completed_at = Never THEN now
    ELSE IF status # "completed" THEN Never
    ELSE task.completed_at

\* PUT /api/tasks/<task_id> (description is set like title); a 400 returns
\* without a commit, and the session with the assignments made so far is
\* discarded with the request
update_task(s, header, strict, task_id, title, status, priority, dueDate, projectId, ok) ==
    /\ pc[s] = "idle"
    /\ LET g == token_required(header, strict)
           found == TaskOf(task_id, g.user_id)
       IN IF ~g.ok
          THEN /\ Return(s, WithArg(Refused("update_task", header, g), task_id))
               /\ UNCHANGED tasks
          ELSE IF found = {}
          THEN /\ Return(s, WithArg(Api("update_task", header, g.user_id, 404,
                                        "Task not found", {}), task_id))
               /\ UNCHANGED tasks
          ELSE IF dueDate \in InvalidDates
          THEN /\ Return(s, WithArg(Api("update_task", header, g.user_id, 400,
                                        "Invalid due date format", {}), task_id))
               /\ UNCHANGED tasks
          ELSE IF projectId # AbsentId /\ ProjectOf(projectId, g.user_id) = {}
          THEN /\ Return(s, WithArg(Api("update_task", header, g.user_id, 400,
                                        "Project not found or does not belong to you", {}),
                                    task_id))
               /\ UNCHANGED tasks
          ELSE LET task == CHOOSE x \in found : TRUE
                   updated == [task EXCEPT
                                 !.title = Given(title, task.title),
                                 !.status = Given(status, task.status),
                                 !.completed_at = CompletedAt(task, status),
                                 !.priority = Given(priority, task.priority),
                                 !.due_date = Given(dueDate, task.due_date),
                                 !.project_id = IF projectId = AbsentId THEN task.project_id
                                                                        ELSE projectId]
               IN IF ok
                  THEN /\ tasks' = (tasks \ {task}) \cup {updated}
                       /\ Return(s, WithArg(Api("update_task", header, g.user_id, 200, "",
                                                {TaskDict(updated)}), task_id))
                  ELSE /\ Return(s, WithArg(Api("update_task", header, g.user_id, 500,
                                                "Error updating task", {}), task_id))
                       /\ UNCHANGED tasks
    /\ UNCHANGED <<users, tokens, now, nextId, nextTok, history, session,
                   clients, payments, projects, nextRow>>

UpdateTaskLoad_FlushKept(s, header, strict, task_id, title, status, priority, dueDate, projectId) ==
    /\ pc[s] = "idle"
    /\ LET g == token_required(header, strict)
           found == TaskOf(task_id, g.user_id)
       IN IF ~g.ok
          THEN /\ Return(s, WithArg(Refused("update_task", header, g), task_id))
               /\ UNCHANGED tasks
          ELSE IF found = {}
          THEN /\ Return(s, WithArg(Api("update_task", header, g.user_id, 404,
                                        "Task not found", {}), task_id))
               /\ UNCHANGED tasks
          ELSE IF dueDate \in InvalidDates
          THEN /\ Return(s, WithArg(Api("update_task", header, g.user_id, 400,
                                        "Invalid due date format", {}), task_id))
               /\ UNCHANGED tasks
          ELSE LET task == CHOOSE x \in found : TRUE
                   updated == [task EXCEPT
                                 !.title = Given(title, task.title),
                                 !.status = Given(status, task.status),
                                 !.completed_at = CompletedAt(task, status),
                                 !.priority = Given(priority, task.priority),
                                 !.due_date = Given(dueDate, task.due_date)]
               IN IF projectId # AbsentId /\ ProjectOf(projectId, g.user_id) = {}
                  THEN /\ tasks' = (tasks \ {task}) \cup {updated}
                       /\ Return(s, WithArg(Api("update_task", header, g.user_id, 400,
                                                "Project not found or does not belong to you",
                                                {}), task_id))
                  ELSE /\ Goto(s, "update_task_commit",
                               [hdr |-> header, user_id |-> g.user_id, parent |-> task_id,
                                row |-> task,
                                updated |-> [updated EXCEPT
                                   !.project_id = IF projectId = AbsentId
                                                  THEN task.project_id ELSE projectId]])
                       /\ UNCHANGED tasks
    /\ UNCHANGED <<users, tokens, now, nextId, nextTok, history, session,
                   clients, payments, projects, nextRow>>

\* update_task served next to other requests, lines 185-222: the row is
\* read and the request's values are assigned to the loaded object; the
\* UPDATE waits for the commit of line 225
UpdateTaskLoad(s, header, strict, task_id, title, status, priority, dueDate, projectId) ==
    /\ pc[s] = "idle"
    /\ LET g == token_required(header, strict)
           found == TaskOf(task_id, g.user_id)
       IN IF ~g.ok
          THEN Return(s, WithArg(Refused("update_task", header, g), task_id))
          ELSE IF found = {}
          THEN Return(s, WithArg(Api("update_task", header, g.user_id, 404,
                                     "Task not found", {}), task_id))
          ELSE IF dueDate \in InvalidDates
          THEN Return(s, WithArg(Api("update_task", header, g.user_id, 400,
                                     "Invalid due date format", {}), task_id))
          ELSE IF projectId # AbsentId /\ ProjectOf(projectId, g.user_id) = {}
          THEN Return(s, WithArg(Api("update_task", header, g.user_id, 400,
                                     "Project not found or does not belong to you", {}),
                                 task_id))
          ELSE LET task == CHOOSE x \in found : TRUE
                   updated == [task EXCEPT
                                 !.title = Given(title, task.title),
                                 !.status = Given(status, task.status),
                                 !.completed_at = CompletedAt(task, status),
                                 !.priority = Given(priority, task.priority),
                                 !.due_date = Given(dueDate, task.due_date),
                                 !.project_id = IF projectId = AbsentId THEN task.project_id
                                                                        ELSE projectId]
               IN Goto(s, "update_task_commit",
                       [hdr |-> header, user_id |-> g.user_id, parent |-> task_id,
                        row |-> task, updated |-> updated])
    /\ UNCHANGED <<users, tokens, now, nextId, nextTok, history, resources, session>>

\* update_task, lines 224-229: the commit flushes one UPDATE that sets the
\* columns whose value differs from the value loaded, on the row as it is
\* stored by then; a row deleted meanwhile raises, and so does ~ok: 500
UpdateTaskCommit(s, ok) ==
    /\ pc[s] = "update_task_commit"
    /\ LET stored == {t \in tasks : t.id = req[s].row.id} IN
       IF ok /\ stored # {}
       THEN LET cur == CHOOSE t \in stored : TRUE
                merged == [f \in DOMAIN cur |->
                             IF req[s].updated[f] # req[s].row[f] THEN req[s].updated[f]
                                                                  ELSE cur[f]]
            IN /\ tasks' = (tasks \ {cur}) \cup {merged}
               /\ Return(s, WithArg(Api("update_task", req[s].hdr, req[s].user_id, 200, "",
                                        {TaskDict(merged)}), req[s].parent))
       ELSE /\ Return(s, WithArg(Api("update_task", req[s].hdr, req[s].user_id, 500,
                                     "Error updating task", {}), req[s].parent))
            /\ UNCHANGED tasks
    /\ UNCHANGED <<users, tokens, now, nextId, nextTok, history, session,
                   clients, payments, projects, nextRow>>

\* DELETE /api/tasks/<task_id>
delete_task(s, header, strict, task_id, ok) ==
    /\ pc[s] = "idle"
    /\ LET g == token_required(header, strict)
           found == TaskOf(task_id, g.user_id)
       IN IF ~g.ok
          THEN /\ Return(s, WithArg(Refused("delete_task", header, g), task_id))
               /\ UNCHANGED tasks
          ELSE IF found = {}
          THEN /\ Return(s, WithArg(Api("delete_task", header, g.user_id, 404,
                                        "Task not found", {}), task_id))
               /\ UNCHANGED tasks
          ELSE IF ok
          THEN /\ tasks' = tasks \ found
               /\ Return(s, WithArg(Api("delete_task", header, g.user_id, 200,
                                        "Task deleted successfully", {}), task_id))
          ELSE /\ Return(s, WithArg(Api("delete_task", header, g.user_id, 500,
                                        "Error deleting task", {}), task_id))
               /\ UNCHANGED tasks
    /\ UNCHANGED <<users, tokens, now, nextId, nextTok, history, session,
                   clients, payments, projects, nextRow>>

\* ------------------------------------------------------------ the client
\* login, and the client keeping (or not) the bearer token of the response
ClientLogin(s, email, password, keep) ==
    /\ login(s, email, password)
    /\ held' = IF keep /\ out'.status = 200 THEN out'.token ELSE held
    /\ stale' = (stale /\ held' = held)
    /\ UNCHANGED <<lastPw, resources>>

\* reset_password's commit, and what it means for the token the client holds
SessionReset(s, ok, salt) ==
    /\ ResetCommit(s, ok, salt)
    /\ lastPw' = IF out'.status = 200
                 THEN [lastPw EXCEPT ![req[s].user_id] = req[s].password]
                 ELSE lastPw
    /\ stale' = (stale \/ (out'.status = 200 /\ held.user_id = req[s].user_id))
    /\ UNCHANGED <<held, resources>>

\* the clock of the sessions: days 0, 1, W, W + 1, 2W, ... for the window
\* W = JWT_EXPIRATION_DAYS, so that a bearer token is seen on the day it is
\* issued, on a later day of its window, on the day of its exp and after it
TickSession ==
    /\ \A s \in Slots : pc[s] = "idle"
    /\ now < MaxTime
    /\ now' = IF now % JWT_EXPIRATION_DAYS = 0 THEN now + 1
                                               ELSE now + (JWT_EXPIRATION_DAYS - 1)
    /\ out' = NoResp
    /\ UNCHANGED <<users, tokens, nextId, nextTok, pc, req, history, resources, session>>

\* the Authorization headers a client sends
HeldTokens == {held} \ {NoJwt}
InHeaders ==
    {NoHeader, Header(<<"Bearer">>), Bearer(EmptyWord), Bearer(Garbage),
     Bearer(Signed(jwt_encode(DeletedUserId, 0)))}
        \cup {Bearer(Signed(t)) : t \in HeldTokens}
        \cup {Bearer(Forged(t)) : t \in HeldTokens}
        \cup {Basic(Signed(t)) : t \in HeldTokens}

\* ----------------------------------------------------------- specifications
\* Sign-up and login on the store as db.create_all() leaves it
NextAccounts ==
    /\ \/ \E s \in Slots, e \in InEmails, p \in InPasswords, n \in InNames, salt \in Salts :
             SignupCheck(s, e, p, n, salt)
       \/ \E s \in Slots, ok \in BOOLEAN : SignupCommit(s, ok)
       \/ \E s \in Slots, e \in InEmails, p \in InPasswords : login(s, e, p)
    /\ UNCHANGED <<resources, session>>

SpecAccounts == Init /\ [][NextAccounts]_vars

\* The store after signup("a@x.com", "p1", "A") and signup("b@x.com", "p2", "A")
RegisteredUsers ==
    {[id |-> 1, email |-> "a@x.com", full_name |-> "A",
      password_hash |-> generate_password_hash("p1", "s1")],
     [id |-> 2, email |-> "b@x.com", full_name |-> "A",
      password_hash |-> generate_password_hash("p2", "s1")]}

InitReset ==
    /\ users = RegisteredUsers
    /\ tokens = {}
    /\ now = 0
    /\ nextId = 2
    /\ nextTok = 0
    /\ pc = [s \in Slots |-> "idle"]
    /\ req = [s \in Slots |-> IdleReq]
    /\ out = NoResp
    /\ consumed = {}
    /\ signupPw = [i \in {1, 2} |-> IF i = 1 THEN "p1" ELSE "p2"]
    /\ clients = {} /\ payments = {} /\ projects = {} /\ tasks = {}
    /\ nextRow = 0
    /\ held = NoJwt
    /\ stale = FALSE
    /\ lastPw = [i \in {1, 2} |-> IF i = 1 THEN "p1" ELSE "p2"]

\* The password-reset flow of two registered users, with time passing
NextReset ==
    /\ \/ \E s \in Slots, e \in InEmails : ForgotLookup(s, e)
       \/ \E s \in Slots, ok \in BOOLEAN : ForgotDelete(s, ok)
       \/ \E s \in Slots, ok \in BOOLEAN, mailOk \in BOOLEAN : ForgotCommit(s, ok, mailOk)
       \/ \E s \in Slots, t \in InTokens, p \in InPasswords : ResetLookup(s, t, p)
       \/ \E s \in Slots, ok \in BOOLEAN, salt \in Salts : ResetCommit(s, ok, salt)
       \/ Tick
    /\ UNCHANGED <<resources, session>>

SpecReset == InitReset /\ [][NextReset]_vars

\* The same flow with one request served at a time
NextResetSeq ==
    /\ \/ \E e \in InEmails : ForgotLookup("A", e)
       \/ \E ok \in BOOLEAN : ForgotDelete("A", ok)
       \/ \E ok \in BOOLEAN, mailOk \in BOOLEAN : ForgotCommit("A", ok, mailOk)
       \/ \E t \in InTokens, p \in InPasswords : ResetLookup("A", t, p)
       \/ \E ok \in BOOLEAN, salt \in Salts : ResetCommit("A", ok, salt)
       \/ Tick
    /\ UNCHANGED <<resources, session>>

SpecResetSeq == InitReset /\ [][NextResetSeq]_vars

\* the outcomes of jwt.decode at the instant exp of the token in the header:
\* both where the header carries a token whose exp is now, one anywhere else
Stricts(header) ==
    IF Len(header.words) >= 2 /\ header.words[2].claims.exp = now THEN BOOLEAN ELSE {TRUE}

\* The store after the two signups of RegisteredUsers on day 0; the client
\* kept the bearer token of one of the signup responses, or none
InitGate ==
    /\ users = RegisteredUsers
    /\ tokens = {}
    /\ now = 0
    /\ nextId = 2
    /\ nextTok = 0
    /\ pc = [s \in Slots |-> "idle"]
    /\ req = [s \in Slots |-> IdleReq]
    /\ out = NoResp
    /\ consumed = {}
    /\ signupPw = [i \in {1, 2} |-> IF i = 1 THEN "p1" ELSE "p2"]
    /\ clients = {} /\ payments = {} /\ projects = {} /\ tasks = {}
    /\ nextRow = 0
    /\ held \in {NoJwt} \cup {jwt_encode(u.id, 0) : u \in RegisteredUsers}
    /\ stale = FALSE
    /\ lastPw = [i \in {1, 2} |-> IF i = 1 THEN "p1" ELSE "p2"]

\* The authorization checks: two registered users log in, call the protected
\* operations (one request at a time; at most one client row is created) and
\* change their passwords, with time passing
NextGate ==
    \/ \E e \in Emails, p \in Passwords, keep \in BOOLEAN : ClientLogin("A", e, p, keep)
    \/ \E h \in InHeaders : \E strict \in Stricts(h) : get_clients("A", h, strict)
    \/ \E h \in InHeaders, n \in {"A", Missing}, ok \in BOOLEAN : \E strict \in Stricts(h) :
          clients = {} /\ add_client("A", h, strict, n, "a@x.com", ok)
    \/ \E h \in InHeaders : \E strict \in Stricts(h) : get_current_user("A", h, strict)
    \/ \E h \in InHeaders, c \in InPasswords, n \in InPasswords :
          \E strict \in Stricts(h) : ChangeCheck("A", h, c, n, strict)
    \/ \E ok \in BOOLEAN, salt \in Salts : ChangeCommit("A", ok, salt)
    \/ TickSession

SpecGate == InitGate /\ [][NextGate]_vars

\* the Authorization headers of a client that sends the token it holds
InHeld == {NoHeader} \cup {Bearer(Signed(t)) : t \in HeldTokens}

\* the user whose sessions are followed
SessionEmails == {"a@x.com"}

\* Login, password reset, password change and a protected operation of one
\* user, one request at a time, with time passing
NextSession ==
    \/ \E e \in SessionEmails, p \in Passwords, keep \in BOOLEAN : ClientLogin("A", e, p, keep)
    \/ /\ \/ \E e \in SessionEmails : ForgotLookup("A", e)
          \/ ForgotDelete("A", TRUE)
          \/ \E mailOk \in BOOLEAN : ForgotCommit("A", TRUE, mailOk)
          \/ \E t \in TokenStrings, p \in Passwords : ResetLookup("A", t, p)
       /\ UNCHANGED <<resources, session>>
    \/ \E ok \in BOOLEAN, salt \in Salts : SessionReset("A", ok, salt)
    \/ \E h \in InHeld, c \in Passwords, n \in Passwords :
          \E strict \in Stricts(h) : ChangeCheck("A", h, c, n, strict)
    \/ \E ok \in BOOLEAN, salt \in Salts : ChangeCommit("A", ok, salt)
    \/ \E h \in InHeld : \E strict \in Stricts(h) : get_clients("A", h, strict)
    \/ TickSession

SpecSession == InitGate /\ [][NextSession]_vars

\* Password changes of two registered users served concurrently
NextChange ==
    \/ \E e \in Emails, p \in Passwords, keep \in BOOLEAN : ClientLogin("A", e, p, keep)
    \/ \E s \in Slots, h \in InHeaders, c \in InPasswords, n \in InPasswords :
          ChangeCheck(s, h, c, n, TRUE)
    \/ \E s \in Slots, ok \in BOOLEAN, salt \in Salts : ChangeCommit(s, ok, salt)

SpecChange == InitGate /\ [][NextChange]_vars

\* the Authorization headers of the two registered users, and none
Owners == {Bearer(Signed(jwt_encode(u.id, 0))) : u \in RegisteredUsers}
Callers == {NoHeader} \cup Owners

\* the values of the status argument of a query string
InFilters == {Missing, "completed"}

\* Clients, payments, projects and tasks of two registered users on day 0,
\* one request at a time: every operation of the four resources, by either
\* user, on every id.  Rows are created with the default status and updated
\* to "completed"; update_client writes the name the row has.
NextResources ==
    /\ \/ \E h \in Callers : get_clients("A", h, TRUE)
       \/ \E h \in Callers, n \in {"A", Missing}, ok \in BOOLEAN :
             add_client("A", h, TRUE, n, "a@x.com", ok)
       \/ \E h \in Owners, i \in RowIds : get_client("A", h, TRUE, i)
       \/ \E h \in Owners, i \in RowIds, ok \in BOOLEAN :
             update_client("A", h, TRUE, i, "A", Absent, ok)
       \/ \E h \in Owners, i \in RowIds, ok \in BOOLEAN : delete_client("A", h, TRUE, i, ok)
       \/ \E h \in Owners, c \in {NoId, 1}, st \in InFilters : get_payments("A", h, TRUE, c, st)
       \/ \E h \in Owners, a \in {"10", Missing}, c \in {NoId} \cup RowIds :
             AddPaymentCheck("A", h, TRUE, a, c, Absent)
       \/ \E ok \in BOOLEAN, fk \in BOOLEAN : AddPaymentCommit("A", ok, fk)
       \/ \E h \in Owners, i \in RowIds : get_payment("A", h, TRUE, i)
       \/ \E h \in Owners, i \in RowIds, ok \in BOOLEAN :
             update_payment("A", h, TRUE, i, Absent, "completed", ok)
       \/ \E h \in Owners, i \in RowIds, ok \in BOOLEAN : delete_payment("A", h, TRUE, i, ok)
       \/ \E h \in Owners, c \in {NoId, 1}, st \in InFilters, inc \in BOOLEAN :
             get_projects("A", h, TRUE, c, st, inc)
       \/ \E h \in Owners, n \in {"A", Missing}, c \in {NoId} \cup RowIds :
             AddProjectCheck("A", h, TRUE, n, c, Absent, Absent)
       \/ \E ok \in BOOLEAN, fk \in BOOLEAN : AddProjectCommit("A", ok, fk)
       \/ \E h \in Owners, i \in RowIds, inc \in BOOLEAN : get_project("A", h, TRUE, i, inc)
       \/ \E h \in Owners, i \in RowIds, ok \in BOOLEAN :
             update_project("A", h, TRUE, i, Absent, "completed", Absent, AbsentId, ok)
       \/ \E h \in Owners, i \in RowIds, ok \in BOOLEAN : delete_project("A", h, TRUE, i, ok)
       \/ \E h \in Owners, j \in {NoId, 2}, st \in InFilters, pr \in {Missing, "medium"} :
             get_tasks("A", h, TRUE, j, st, pr)
       \/ \E h \in Owners, t \in {"A", Missing}, j \in {NoId} \cup RowIds :
             AddTaskCheck("A", h, TRUE, t, j, Absent, Absent, Absent)
       \/ \E ok \in BOOLEAN, fk \in BOOLEAN : AddTaskCommit("A", ok, fk)
       \/ \E h \in Owners, i \in RowIds : get_task("A", h, TRUE, i)
       \/ \E h \in Owners, i \in RowIds, ok \in BOOLEAN :
             update_task("A", h, TRUE, i, Absent, "completed", Absent, Absent, AbsentId, ok)
       \/ \E h \in Owners, i \in RowIds, ok \in BOOLEAN : delete_task("A", h, TRUE, i, ok)
    /\ held' = held /\ stale' = stale /\ lastPw' = lastPw

SpecResources == InitReset /\ [][NextResources]_vars

\* Day 0.  Either user 1 alone has signed up and the client holds no bearer
\* token, or both RegisteredUsers have and the client kept the token of one
\* of the two signup responses.
InitStore ==
    /\ tokens = {}
    /\ now = 0
    /\ nextTok = 0
    /\ pc = [s \in Slots |-> "idle"]
    /\ req = [s \in Slots |-> IdleReq]
    /\ out = NoResp
    /\ consumed = {}
    /\ clients = {} /\ payments = {} /\ projects = {} /\ tasks = {}
    /\ nextRow = 0
    /\ stale = FALSE
    /\ \/ /\ users = {u \in RegisteredUsers : u.id = 1}
          /\ nextId = 1
          /\ signupPw = [i \in {1} |-> "p1"]
          /\ lastPw = [i \in {1} |-> "p1"]
          /\ held = NoJwt
       \/ /\ users = RegisteredUsers
          /\ nextId = 2
          /\ signupPw = [i \in {1, 2} |-> IF i = 1 THEN "p1" ELSE "p2"]
          /\ lastPw = [i \in {1, 2} |-> IF i = 1 THEN "p1" ELSE "p2"]
          /\ held \in {jwt_encode(u.id, 0) : u \in RegisteredUsers}

\* Every operation that writes, one request at a time.  The client without a
\* bearer token uses the public operations: a second user signs up, the first
\* logs in, asks for reset tokens and resets the password.  The client with a
\* token uses the protected ones: it changes the password and creates,
\* updates and deletes rows of the four resources.
NextStore ==
    \/ /\ held = NoJwt
       /\ \/ SignupCheck("A", "b@x.com", "p2", "A", "s1")
          \/ \E ok \in BOOLEAN : SignupCommit("A", ok)
          \/ \E e \in {"a@x.com", "c@x.com"}, p \in Passwords : login("A", e, p)
          \/ \E e \in {"a@x.com", "c@x.com"} : ForgotLookup("A", e)
          \/ \E ok \in BOOLEAN : ForgotDelete("A", ok)
          \/ \E ok \in BOOLEAN, mailOk \in BOOLEAN : ForgotCommit("A", ok, mailOk)
          \/ \E t \in InTokens : ResetLookup("A", t, "p2")
          \/ \E ok \in BOOLEAN : ResetCommit("A", ok, "s1")
       /\ UNCHANGED <<resources, session>>
    \/ /\ held # NoJwt
       /\ \/ \E c \in Passwords, n \in Passwords :
                ChangeCheck("A", Bearer(Signed(held)), c, n, TRUE)
          \/ \E ok \in BOOLEAN : ChangeCommit("A", ok, "s1")
          \/ \E n \in {"A", Missing}, ok \in BOOLEAN :
                add_client("A", Bearer(Signed(held)), TRUE, n, "a@x.com", ok)
          \/ \E i \in RowIds, ok \in BOOLEAN :
                update_client("A", Bearer(Signed(held)), TRUE, i, "B", Absent, ok)
          \/ \E i \in RowIds, ok \in BOOLEAN :
                delete_client("A", Bearer(Signed(held)), TRUE, i, ok)
          \/ \E c \in RowIds : AddPaymentCheck("A", Bearer(Signed(held)), TRUE, "10", c, Absent)
          \/ \E ok \in BOOLEAN : AddPaymentCommit("A", ok, TRUE)
          \/ \E i \in RowIds, ok \in BOOLEAN :
                update_payment("A", Bearer(Signed(held)), TRUE, i, Absent, "completed", ok)
          \/ \E i \in RowIds, ok \in BOOLEAN :
                delete_payment("A", Bearer(Signed(held)), TRUE, i, ok)
          \/ \E c \in RowIds :
                AddProjectCheck("A", Bearer(Signed(held)), TRUE, "A", c, Absent, Absent)
          \/ \E ok \in BOOLEAN : AddProjectCommit("A", ok, TRUE)
          \/ \E i \in RowIds, ok \in BOOLEAN :
                update_project("A", Bearer(Signed(held)), TRUE, i, Absent, "completed",
                               Absent, AbsentId, ok)
          \/ \E i \in RowIds, ok \in BOOLEAN :
                delete_project("A", Bearer(Signed(held)), TRUE, i, ok)
          \/ \E j \in RowIds :
                AddTaskCheck("A", Bearer(Signed(held)), TRUE, "A", j, Absent, Absent, Absent)
          \/ \E ok \in BOOLEAN : AddTaskCommit("A", ok, TRUE)
          \/ \E i \in RowIds, ok \in BOOLEAN :
                update_task("A", Bearer(Signed(held)), TRUE, i, Absent, "completed",
                            Absent, Absent, AbsentId, ok)
          \/ \E i \in RowIds, ok \in BOOLEAN :
                delete_task("A", Bearer(Signed(held)), TRUE, i, ok)

SpecStore == InitStore /\ [][NextStore]_vars

\* Rows created, moved to another parent and deleted by two users, two
\* requests served concurrently: an INSERT is committed after other requests
\* ran since its handler looked the parent up
NextRace ==
    /\ \/ \E s \in Slots, h \in Owners : add_client(s, h, TRUE, "A", "a@x.com", TRUE)
       \/ \E s \in Slots, h \in Owners, i \in RowIds : delete_client(s, h, TRUE, i, TRUE)
       \/ \E s \in Slots, h \in Owners, c \in RowIds :
             AddPaymentCheck(s, h, TRUE, "10", c, Absent)
       \/ \E s \in Slots, fk \in BOOLEAN : AddPaymentCommit(s, TRUE, fk)
       \/ \E s \in Slots, h \in Owners, c \in RowIds :
             AddProjectCheck(s, h, TRUE, "A", c, Absent, Absent)
       \/ \E s \in Slots, fk \in BOOLEAN : AddProjectCommit(s, TRUE, fk)
       \/ \E s \in Slots, h \in Owners, i \in RowIds, c \in RowIds :
             update_project(s, h, TRUE, i, Absent, Absent, Absent, c, TRUE)
       \/ \E s \in Slots, h \in Owners, i \in RowIds : delete_project(s, h, TRUE, i, TRUE)
       \/ \E s \in Slots, h \in Owners, j \in RowIds :
             AddTaskCheck(s, h, TRUE, "A", j, Absent, Absent, Absent)
       \/ \E s \in Slots, fk \in BOOLEAN : AddTaskCommit(s, TRUE, fk)
       \/ \E s \in Slots, h \in Owners, i \in RowIds, j \in RowIds :
             update_task(s, h, TRUE, i, Absent, Absent, Absent, Absent, j, TRUE)
    /\ held' = held /\ stale' = stale /\ lastPw' = lastPw

SpecRace == InitReset /\ [][NextRace]_vars

\* A user with a client and a project adds tasks and updates them and the
\* project, two requests at a time, while days pass; the header carries a
\* token as login issues it on the day of the request
InitTasks ==
    /\ users = RegisteredUsers
    /\ tokens = {}
    /\ now = 0
    /\ nextId = 2
    /\ nextTok = 0
    /\ pc = [s \in Slots |-> "idle"]
    /\ req = [s \in Slots |-> IdleReq]
    /\ out = NoResp
    /\ consumed = {}
    /\ signupPw = [i \in {1, 2} |-> IF i = 1 THEN "p1" ELSE "p2"]
    /\ clients = {[id |-> 1, user_id |-> 1, name |-> "A", email |-> "a@x.com"]}
    /\ payments = {}
    /\ projects = {[id |-> 2, user_id |-> 1, client_id |-> 1, name |-> "A",
                    status |-> "active", start_date |-> Missing]}
    /\ tasks = {}
    /\ nextRow = 2
    /\ held = NoJwt
    /\ stale = FALSE
    /\ lastPw = [i \in {1, 2} |-> IF i = 1 THEN "p1" ELSE "p2"]

Today(user_id) == Bearer(Signed(jwt_encode(user_id, now)))

NextTasks ==
    /\ \/ \E s \in Slots, st \in {Absent, "completed"} :
             AddTaskCheck(s, Today(1), TRUE, "A", 2, st, Absent, Absent)
       \/ \E s \in Slots : AddTaskCommit(s, TRUE, TRUE)
       \/ \E s \in Slots, i \in RowIds, t \in {Absent, "B"},
             st \in {Absent, "todo", "completed"}, d \in {Absent} \cup InvalidDates,
             j \in {AbsentId, 1} :
             UpdateTaskLoad(s, Today(1), TRUE, i, t, st, Absent, d, j)
       \/ \E s \in Slots, ok \in BOOLEAN : UpdateTaskCommit(s, ok)
       \/ \E i \in RowIds, n \in {Absent, "B"}, d \in {Absent} \cup InvalidDates,
             c \in {AbsentId, 2}, ok \in BOOLEAN :
             update_project("A", Today(1), TRUE, i, n, Absent, d, c, ok)
       \/ Tick /\ UNCHANGED resources
    /\ held' = held /\ stale' = stale /\ lastPw' = lastPw

SpecTasks == InitTasks /\ [][NextTasks]_vars

\* ------------------------------------------------------------------ claims

\* the tokens of user id that are active: unused and not expired
ActiveTokens(id) == {t \in TokensOfUser(id) : ~t.used /\ ~Expired(t)}

\* C1: once a reset token has been redeemed, a reset_password request that
\* presents it afterwards never gets past the lookup: it returns at once (no
\* slot changes its statement) with 400 "Invalid or expired token" and leaves
\* the users table as it was.
C1_SingleUse ==
    [][/\ \A s \in Slots :
             (pc[s] = "idle" /\ pc'[s] = "reset_commit") => req'[s].token \notin consumed
       /\ (pc' = pc /\ out'.reset_token \in consumed)
             => /\ out'.status = 400
                /\ out'.msg = "Invalid or expired token"
                /\ users' = users
      ]_vars

\* C1 witness: a request carrying a redeemed token has just been refused.
C1_Witness ==
    /\ out.reset_token \in consumed
    /\ out.status = 400
    /\ out.msg = "Invalid or expired token"

\* C2: reset_password with an unused token whose expires_at is earlier than
\* the current time fails, and changes neither the users nor the tokens table.
C2_ExpiredTokenFails ==
    [][\A s \in Slots : pc[s] = "idle" =>
          \A t \in {x \in tokens : ~x.used /\ x.expires_at < now}, q \in Passwords :
              ResetLookup(s, t.token, q)
                  => /\ out'.status = 400
                     /\ pc'[s] = "idle"
                     /\ users' = users
                     /\ tokens' = tokens
      ]_vars

\* C2 witness: a request carrying an unused, expired token has just been
\* refused, and the token row is still in the table.
C2_Witness ==
    /\ out.status = 400
    /\ out.msg = "Token has expired"
    /\ \E t \in tokens : t.token = out.reset_token /\ ~t.used /\ t.expires_at < now

\* C3 (as claimed): every user has at most one active reset token.
C3_OneActiveToken ==
    \A u \in users : Cardinality(ActiveTokens(u.id)) <= 1

\* C4: when forgot_password for a registered user commits with no other
\* request interleaved, the user's earlier token rows are all gone, the user
\* has exactly one row (the new one), no earlier token string of the user can
\* be looked up any more, and the rows of other users are untouched.
C4_ForgotReplacesTokens ==
    [][\A s \in Slots :
          (pc[s] = "forgot_commit" /\ pc'[s] = "idle" /\ out'.status = 200)
              => /\ {t \in tokens' : t.user_id = req[s].user_id}
                       = {[user_id |-> req[s].user_id, token |-> req[s].token,
                           expires_at |-> now + PASSWORD_RESET_TOKEN_EXPIRATION_DAYS,
                           used |-> FALSE]}
                 /\ \A t \in TokensOfUser(req[s].user_id) :
                       {x \in tokens' : x.token = t.token} = {}
                 /\ {t \in tokens' : t.user_id # req[s].user_id}
                       = {t \in tokens : t.user_id # req[s].user_id}
      ]_vars

\* C4 witness: token 1 was stored and redeemed, and a second forgot_password
\* of its owner has just committed: only the new row is left.
C4_Witness ==
    /\ 1 \in consumed
    /\ out.status = 200
    /\ out.mail # "none"
    /\ nextTok = 2
    /\ tokens = {[user_id |-> 1, token |-> 2,
                  expires_at |-> now + PASSWORD_RESET_TOKEN_EXPIRATION_DAYS,
                  used |-> FALSE]}

\* C5 (as claimed): no reset_password request reports success for a token that
\* an earlier request has already redeemed, so a token is consumed once.
C5_RedeemedOnce ==
    [][\A s \in Slots :
          (pc[s] = "reset_commit" /\ pc'[s] = "idle" /\ out'.status = 200)
              => req[s].token \notin consumed
      ]_vars

C7_ResetAtomic ==
    [][\A s \in Slots :
          (pc[s] = "reset_commit" /\ pc'[s] = "idle")
              => \/ /\ out'.status = 200
                    /\ \A u \in users' : u.id = req[s].user_id
                          => check_password_hash(u.password_hash, req[s].password)
                    /\ \A t \in tokens' : t.token = req[s].token => t.used
                    /\ \E t \in tokens' : t.token = req[s].token
                 \/ /\ out'.status = 500
                    /\ users' = users
                    /\ tokens' = tokens
      ]_vars

\* C7 witness: a reset has just succeeded: the token is used and user 1, who
\* signed up with "p1", now has the hash of "p2".
C7_Witness ==
    /\ out.status = 200
    /\ out.msg = "Password reset successful"
    /\ \E t \in tokens : t.token = out.reset_token /\ t.used /\ t.user_id = 1
    /\ \E u \in users : u.id = 1 /\ check_password_hash(u.password_hash, "p2")

\* C8 (as claimed): a signup request for an email that is registered when the
\* request returns is answered 409 "User already exists" and creates no user,
\* also when it passed the existence check before the other signup committed
\* (the database itself working: SignupCommit(s, TRUE)).
C8_DuplicateSignupIsConflict ==
    [][\A s \in Slots :
          /\ \A e \in Emails, p \in Passwords, n \in Names, salt \in Salts :
                (SignupCheck(s, e, p, n, salt) /\ UsersByEmail(e) # {})
                    => (out' = Resp(409, "User already exists") /\ users' = users)
          /\ (SignupCommit(s, TRUE) /\ UsersByEmail(req[s].email) # {})
                    => (out' = Resp(409, "User already exists") /\ users' = users)
      ]_vars

\* C9: no two rows of the users table have the same email.
C9_EmailUnique ==
    \A u \in users, v \in users : u.email = v.email => u = v

\* C9 witness: a signup that passed the existence check is about to insert an
\* email that a concurrent signup has committed meanwhile.
C9_Witness ==
    \E s \in Slots : pc[s] = "signup_commit" /\ UsersByEmail(req[s].email) # {}

\* C10: every user created by signup can log in with the email and password of
\* that signup, and the bearer token of the login carries that user's id
\* (no operation of this specification changes a password).
C10_LoginAfterSignup ==
    \A u \in users :
        /\ LoginResp(u.email, signupPw[u.id]).status = 200
        /\ LoginResp(u.email, signupPw[u.id]).token.user_id = u.id

\* C10 witness: two users exist and a login has just succeeded for the second.
C10_Witness ==
    /\ Cardinality(users) = 2
    /\ out.status = 200
    /\ out.msg = "Login successful"
    /\ out.token.user_id = 2

\* the messages with which a protected operation refuses a bearer token
TokenRefusals ==
    {"Authorization token required", "Invalid token format", "Token is missing",
     "Token has expired", "Invalid token", "User not found"}

\* C11: a request that presents the bearer token a login or signup issued
\* (the one the client holds) is let through by token_required, by
\* get_user_from_token and by the token check of change_password, for the
\* user of the token, on the day of issue and on every later day before the
\* token's exp = issue day + JWT_EXPIRATION_DAYS; after exp it is refused
\* with 401.  (On the day of exp itself the outcome is the PyJWT release's.)
C11_TokenValidUntilExpiry ==
    (IsApi(out) /\ held # NoJwt /\ out.hdr = Bearer(Signed(held))) =>
        /\ now < held.exp =>
               /\ out.caller = held.user_id
               /\ out.msg \notin TokenRefusals
               /\ out.op \in {"get_clients", "get_current_user"} => out.status = 200
        /\ now > held.exp =>
               /\ out.status = 401
               /\ out.msg = "Token has expired"
               /\ out.caller = 0

\* C11 witness: the token a login issued on day 1 has just been let through
\* by token_required on a later day of its window.
C11_Witness ==
    /\ IsApi(out) /\ out.op = "get_clients"
    /\ out.hdr = Bearer(Signed(held))
    /\ out.status = 200
    /\ held.exp = 1 + JWT_EXPIRATION_DAYS
    /\ now = JWT_EXPIRATION_DAYS

\* a token refused after its exp
C11_Refused ==
    /\ IsApi(out) /\ out.op = "get_clients"
    /\ out.hdr = Bearer(Signed(held))
    /\ out.status = 401
    /\ now > held.exp

\* C12: a request to a protected operation (get_clients and add_client behind
\* token_required, get_current_user, change_password) that carries no
\* Authorization header, or a header without a second space-separated part,
\* is answered 401 at once: no user is resolved, nothing is returned, and the
\* users, reset-token and resource tables are as before.
C12_NoTokenRefused ==
    [][(IsApi(out') /\ (~out'.hdr.present \/ Len(out'.hdr.words) < 2))
          => /\ out'.status = 401
             /\ out'.caller = 0
             /\ out'.body = {}
             /\ pc' = pc
             /\ users' = users
             /\ tokens' = tokens
             /\ <<clients, payments, projects, tasks, nextRow>>'
                    = <<clients, payments, projects, tasks, nextRow>>
      ]_vars

\* C12 witness: add_client has just refused a request whose header is the
\* single word "Bearer", sent by a client that holds a valid token.
C12_Witness ==
    /\ IsApi(out) /\ out.op = "add_client"
    /\ out.hdr = Header(<<"Bearer">>)
    /\ out.status = 401
    /\ held # NoJwt /\ now < held.exp
    /\ clients = {}

\* C13 (as claimed): a request to an operation behind token_required whose
\* Authorization header has a first word other than "Bearer" is answered 401.
C13_OnlyBearerAccepted ==
    (/\ IsApi(out)
     /\ out.op \in {"get_clients", "add_client"}
     /\ Len(out.hdr.words) >= 1
     /\ out.hdr.words[1] # "Bearer")
        => out.status = 401

\* the header carries, as "Bearer <token>", a token that is malformed, has a
\* bad signature, is past its exp or names a user that is not in the table
BadToken(header) ==
    /\ StartsWithBearer(header)
    /\ LET token == header.words[2] IN
          \/ token.form = "garbage"
          \/ /\ token.form = "jwt"
             /\ \/ token.sig # "SECRET_KEY"
                \/ token.claims.exp < now
                \/ UsersById(token.claims.user_id) = {}

\* C14 (as claimed): two requests in a row to the same protected operation,
\* each with a token that is bad for one of those reasons, get the same
\* answer: status 401 and one message.
C14_OneUnauthorizedOutcome ==
    [][(/\ IsApi(out) /\ IsApi(out')
        /\ out'.op = out.op
        /\ BadToken(out.hdr) /\ BadToken(out'.hdr))
          => /\ out'.status = 401
             /\ out'.status = out.status
             /\ out'.msg = out.msg
      ]_vars

\* C15: a change_password request with the valid bearer token of a user goes
\* on to the UPDATE exactly when currentPassword is the password of the hash
\* its SELECT returned (the password most recently set for that user), and is
\* otherwise answered 401 with the users table as before; the request that
\* goes on either commits the hash of newPassword into the row of the token's
\* user and no other row, or answers 500 with the users table as before.
C15_ChangePassword ==
    [][\A s \in Slots :
          /\ (pc[s] = "idle" /\ held # NoJwt) =>
                \A c \in Passwords, n \in Passwords :
                   ChangeCheck(s, Bearer(Signed(held)), c, n, TRUE)
                      => /\ users' = users
                         /\ IF c = lastPw[held.user_id]
                            THEN /\ pc'[s] = "change_commit"
                                 /\ req'[s].user_id = held.user_id
                                 /\ req'[s].password = n
                            ELSE /\ pc'[s] = "idle"
                                 /\ out'.status = 401
          /\ (pc[s] = "change_commit" /\ pc'[s] = "idle")
                => \/ /\ out'.status = 200
                      /\ \E u \in users' : u.id = req[s].user_id
                      /\ \A u \in users' : u.id = req[s].user_id
                            => check_password_hash(u.password_hash, req[s].password)
                      /\ {u \in users' : u.id # req[s].user_id}
                            = {u \in users : u.id # req[s].user_id}
                   \/ /\ out'.status = 500
                      /\ users' = users
      ]_vars

\* C15 witness: user 1, who signed up with "p1", has just changed the
\* password to "p2"; the row of user 2 is as it was.
C15_Witness ==
    /\ IsApi(out) /\ out.op = "change_password"
    /\ out.status = 200 /\ out.caller = 1
    /\ \E u \in users : u.id = 1 /\ check_password_hash(u.password_hash, "p2")
                                  /\ ~check_password_hash(u.password_hash, "p1")
    /\ \E u \in users : u.id = 2 /\ u \in RegisteredUsers

\* C16: when reset_password succeeds with a token forgot_password issued,
\* login with the new password succeeds from then on and login with any
\* other password (the old one) is answered 401; this stays so until the
\* next successful reset_password or change_password, the only steps that
\* write the users table.  (lastPw is the password most recently set.)
C16_LoginAfterReset ==
    [][/\ (pc["A"] = "reset_commit" /\ pc'["A"] = "idle" /\ out'.status = 200)
             => \A u \in UsersById(req["A"].user_id), q \in Passwords :
                   PasswordAccepted(u.email, q)' <=> (q = req["A"].password)
       /\ pc["A"] = "idle" =>
             \A u \in users, q \in Passwords :
                login("A", u.email, q)
                   => IF q = lastPw[u.id]
                      THEN out'.status = 200 /\ out'.token.user_id = u.id
                      ELSE out'.status = 401
       /\ users' # users
             => /\ pc["A"] \in {"reset_commit", "change_commit"}
                /\ out'.status = 200
      ]_vars

\* C16 witness: user 1 signed up with "p1", never changed the password with
\* change_password (the client holds no bearer token), redeemed a reset token
\* with "p2", and a login has just succeeded.
C16_Witness ==
    /\ out.status = 200 /\ out.msg = "Login successful"
    /\ out.token.user_id = 1
    /\ signupPw[1] = "p1" /\ lastPw[1] = "p2"
    /\ held = NoJwt
    /\ \E t \in tokens : t.user_id = 1 /\ t.used /\ t.token \in consumed

\* C20: the bearer token the client holds, issued before a later successful
\* change_password or reset_password of its user (stale), is let through by
\* token_required for that user on every day before its exp.
C20_NoRevocation ==
    (/\ IsApi(out) /\ out.op = "get_clients"
     /\ stale
     /\ out.hdr = Bearer(Signed(held))
     /\ now < held.exp)
        => /\ out.status = 200
           /\ out.caller = held.user_id

\* C20 witness: a token issued on day 0, before its user's password was
\* reset with a reset token, has just been let through on a later day.
C20_Witness ==
    /\ IsApi(out) /\ out.op = "get_clients"
    /\ stale
    /\ out.hdr = Bearer(Signed(held))
    /\ out.status = 200
    /\ held.exp = JWT_EXPIRATION_DAYS /\ now > 0
    /\ \E t \in tokens : t.user_id = held.user_id /\ t.token \in consumed
    /\ \E u \in users : u.id = held.user_id /\ u \notin RegisteredUsers

\* a stale token let through after a change_password, with no reset redeemed
C20_AfterChange ==
    /\ IsApi(out) /\ out.op = "get_clients"
    /\ stale
    /\ out.hdr = Bearer(Signed(held))
    /\ out.status = 200
    /\ consumed = {}

\* the operations on one row, the table each reads, and its 404 message
ItemOps == {"get_client", "update_client", "delete_client",
            "get_payment", "update_payment", "delete_payment",
            "get_project", "update_project", "delete_project",
            "get_task", "update_task", "delete_task"}
C17_Table(op) ==
    IF op \in {"get_client", "update_client", "delete_client"} THEN clients
    ELSE IF op \in {"get_payment", "update_payment", "delete_payment"} THEN payments
    ELSE IF op \in {"get_project", "update_project", "delete_project"} THEN projects
    ELSE tasks
C17_Message(op) ==
    IF op \in {"get_client", "update_client", "delete_client"} THEN "Client not found"
    ELSE IF op \in {"get_payment", "update_payment", "delete_payment"} THEN "Payment not found"
    ELSE IF op \in {"get_project", "update_project", "delete_project"} THEN "Project not found"
    ELSE "Task not found"

\* C17: a get, update or delete of a client, payment, project or task by an
\* authenticated caller who does not own the row is answered 404 with the
\* message and the empty body an id that does not exist gets, never 403, and
\* the step leaves every table as it was.
C17_NonOwnerNotFound ==
    [][(IsApi(out') /\ pc' = pc /\ out'.op \in ItemOps /\ out'.caller # 0)
       => /\ out'.status # 403
          /\ ((\A r \in C17_Table(out'.op) : r.id = out'.arg => r.user_id # out'.caller)
              => /\ out'.status = 404
                 /\ out'.msg = C17_Message(out'.op)
                 /\ out'.body = {}
                 /\ resources' = resources)]_vars

\* user 2 asked to delete a payment of user 1, got 404, and the payment is there
C17_Witness ==
    /\ IsApi(out) /\ out.op = "delete_payment" /\ out.caller # 0
    /\ out.status = 404
    /\ \E p \in payments : p.id = out.arg /\ p.user_id # out.caller

\* the list operations, and the ids of the rows of the caller of response r
\* that match the query arguments of r
ListOps == {"get_clients", "get_payments", "get_projects", "get_tasks"}
C18_Expected(r) ==
    IF r.op = "get_clients"
    THEN {c.id : c \in {x \in clients : x.user_id = r.caller}}
    ELSE IF r.op = "get_payments"
    THEN {p.id : p \in {x \in payments :
                          /\ x.user_id = r.caller
                          /\ r.arg.parent # NoId => x.client_id = r.arg.parent
                          /\ r.arg.status # Missing => x.status = r.arg.status}}
    ELSE IF r.op = "get_projects"
    THEN {p.id : p \in {x \in projects :
                          /\ x.user_id = r.caller
                          /\ r.arg.parent # NoId => x.client_id = r.arg.parent
                          /\ r.arg.status # Missing => x.status = r.arg.status}}
    ELSE {t.id : t \in {x \in tasks :
                          /\ x.user_id = r.caller
                          /\ r.arg.parent # NoId => x.project_id = r.arg.parent
                          /\ r.arg.status # Missing => x.status = r.arg.status
                          /\ r.arg.priority # Missing => x.priority = r.arg.priority}}

\* C18: every list operation called with a valid token answers 200 with
\* exactly the rows whose user_id is the caller's and that match the query
\* arguments given; the tasks nested in a listed project are the caller's.
C18_ListsOnlyOwn ==
    [][(IsApi(out') /\ pc' = pc /\ out'.op \in ListOps /\ out'.caller # 0)
       => /\ out'.status = 200
          /\ {d.id : d \in out'.body} = C18_Expected(out')
          /\ \A d \in out'.body :
                "tasks" \in DOMAIN d =>
                   \A t \in d.tasks : \E x \in tasks : x.id = t.id /\ x.user_id = out'.caller]_vars

\* a user listed the projects of one client and got some, while another
\* user has rows too
C18_Witness ==
    /\ IsApi(out) /\ out.op = "get_projects" /\ out.status = 200
    /\ out.arg.parent # NoId
    /\ out.body # {}
    /\ \E c \in clients : c.user_id # out.caller

\* the operations that create a row under a parent, and the parent's table
AddOps == {"add_payment", "add_project", "add_task"}
C19_Parents(kind) == IF kind \in {"add_task", "add_task_commit"} THEN projects ELSE clients

\* C19: add_payment, add_project and add_task reach their INSERT only when
\* the parent id of the body names a row of the caller; a call that returns
\* before it is answered 400 and inserts nothing, and a child row appears only
\* with the 201 of an INSERT, under the parent and the user of that request.
C19_ParentVerified ==
    [][/\ (IsApi(out') /\ pc' = pc /\ out'.op \in AddOps /\ out'.caller # 0)
          => (out'.status = 400 /\ resources' = resources)
       /\ \A s \in Slots :
            (pc[s] = "idle"
             /\ pc'[s] \in {"add_payment_commit", "add_project_commit", "add_task_commit"})
            => /\ req'[s].user_id # 0
               /\ \E r \in C19_Parents(pc'[s]) :
                     r.id = req'[s].parent /\ r.user_id = req'[s].user_id
       /\ \A x \in (payments' \cup projects') \cup tasks' :
            (\A y \in (payments \cup projects) \cup tasks : y.id # x.id)
            => \E s \in Slots :
                  /\ pc[s] \in {"add_payment_commit", "add_project_commit", "add_task_commit"}
                  /\ pc'[s] = "idle"
                  /\ out'.status = 201
                  /\ x.user_id = req[s].user_id
                  /\ IF pc[s] = "add_task_commit" THEN x.project_id = req[s].parent
                                                  ELSE x.client_id = req[s].parent]_vars

\* user 2 asked for a task under a project of user 1 and got 400
C19_Witness ==
    /\ IsApi(out) /\ out.op = "add_task" /\ out.caller # 0
    /\ out.status = 400
    /\ \E p \in projects : p.id = out.arg /\ p.user_id # out.caller
    /\ tasks = {}

\* a payment was created under a client of the caller
C19_Created ==
    /\ IsApi(out) /\ out.op = "add_payment" /\ out.status = 201
    /\ \E p \in payments : \E c \in clients :
          p.client_id = c.id /\ c.user_id = out.caller /\ p.user_id = out.caller

\* C21: when send_reset_email fails in a forgot_password request of a
\* registered user, the request is answered 200 with the generic message and
\* the token row it committed is in the table, unused and not expired; and
\* reset_password never refuses a token string that is stored unused and not
\* expired, so that token can be redeemed.
C21_MailFailureKeepsToken ==
    [][/\ \A s \in Slots :
            (pc[s] = "forgot_commit" /\ pc'[s] = "idle" /\ out'.mail = "failed")
               => /\ out'.status = 200
                  /\ out'.msg = "If an account exists, a password reset email has been sent"
                  /\ [user_id |-> req[s].user_id, token |-> req[s].token,
                      expires_at |-> now + PASSWORD_RESET_TOKEN_EXPIRATION_DAYS,
                      used |-> FALSE] \in tokens'
       /\ (pc' = pc /\ out'.status = 400)
            => ~ \E t \in tokens :
                    t.token = out'.reset_token /\ ~t.used /\ t.expires_at >= now
      ]_vars

\* C21 witness: send_reset_email has just failed, the answer is the generic
\* 200 and an unused, unexpired token is stored.
C21_Witness ==
    /\ out.mail = "failed"
    /\ out.status = 200
    /\ \E t \in tokens : ~t.used /\ t.expires_at >= now

\* the statements at which a request commits an INSERT
InsertCommits == {"signup_commit", "forgot_commit", "add_payment_commit",
                  "add_project_commit", "add_task_commit"}

\* C22: a request that is answered 500 leaves the users, reset-token, client,
\* payment, project and task tables as they were; a request that reaches the
\* commit of an INSERT is answered 500 exactly when the commit stored
\* nothing; and forgot_password writes nothing before its commit, so when
\* the commit fails every token row its DELETE had found is still stored.
C22_FailureKeepsState ==
    [][/\ out'.status = 500
            => (users' = users /\ tokens' = tokens /\ resources' = resources)
       /\ \A s \in Slots :
            /\ (pc[s] \in InsertCommits /\ pc'[s] = "idle")
                  => (out'.status = 500
                         <=> (users' = users /\ tokens' = tokens /\ resources' = resources))
            /\ (pc'[s] \in {"forgot_delete", "forgot_commit"} /\ pc'[s] # pc[s])
                  => tokens' = tokens
            /\ (pc[s] = "forgot_commit" /\ pc'[s] = "idle" /\ out'.status = 500)
                  => \A k \in req[s].dels : \E t \in tokens' : t.token = k
      ]_vars

\* C22 witness: the commit of a second forgot_password of user 1 has just
\* failed, and the token row of the first one is still stored, unused.
C22_Witness ==
    /\ out.status = 500
    /\ out.msg = "Error processing request"
    /\ nextTok = 2
    /\ \E t \in tokens : t.token = 1 /\ t.user_id = 1 /\ ~t.used

\* the commit of add_client has just failed after a client was stored: the
\* table holds that client alone
C22_ClientKept ==
    /\ IsApi(out) /\ out.op = "add_client" /\ out.status = 500
    /\ Cardinality(clients) = 1

\* C23 (as claimed): reset_password answers a token string it refuses with
\* one response, 400 "Invalid or expired token", whether the string is not
\* stored, was already used or has expired.
C23_OneResetFailure ==
    (out.status = 400 /\ out.reset_token # BogusToken)
        => out.msg = "Invalid or expired token"

\* C24: a step in which time passes changes no row of any table; and a row of
\* password_reset_tokens that is unused and expired leaves the table, or
\* changes, only when a forgot_password of its owner commits.
C24_LazyExpiry ==
    [][/\ now' # now
            => (users' = users /\ tokens' = tokens /\ resources' = resources)
       /\ \A t \in tokens :
            (~t.used /\ t.expires_at < now /\ t \notin tokens')
               => \E s \in Slots :
                     /\ pc[s] = "forgot_commit" /\ pc'[s] = "idle"
                     /\ req[s].user_id = t.user_id
                     /\ out'.status = 200
      ]_vars

\* C24 witness: time has just passed; a token that is now expired is still
\* stored, unused.
C24_Witness ==
    /\ out = NoResp
    /\ now > 0
    /\ \A s \in Slots : pc[s] = "idle"
    /\ \E t \in tokens : ~t.used /\ t.expires_at < now

\* an expired token was replaced by a later forgot_password of its owner
C24_Replaced ==
    /\ now > 0
    /\ out.mail # "none"
    /\ nextTok = 2
    /\ \A t \in tokens : t.token = 2 /\ t.expires_at > now
    /\ 1 \notin consumed

C25_Changed ==
    /\ IsApi(out) /\ out.op = "change_password" /\ out.status = 200
    /\ clients # {}
    /\ \E u \in users : u.id = 1 /\ check_password_hash(u.password_hash, "p2")

\* C26 (as claimed): in every state every payment and every project names a
\* stored client of the same user, and every task a stored project of the
\* same user.
C26_ParentsExist ==
    /\ \A p \in payments \cup projects :
          \E c \in clients : c.id = p.client_id /\ c.user_id = p.user_id
    /\ \A t \in tasks :
          \E p \in projects : p.id = t.project_id /\ p.user_id = t.user_id

\* C27: a delete_client that answers 200 removes the client, its payments,
\* its projects and the tasks of those projects, a delete_project that
\* answers 200 removes the project and its tasks; afterwards no row names
\* the deleted parent and every other row is stored as before.
C27_CascadeDelete ==
    [][ (pc' = pc /\ IsApi(out') /\ out'.status = 200) =>
          /\ out'.op = "delete_client" =>
               LET gone == {p.id : p \in {q \in projects : q.client_id = out'.arg}}
               IN /\ clients' = {c \in clients : c.id # out'.arg}
                  /\ clients' # clients
                  /\ payments' = {p \in payments : p.client_id # out'.arg}
                  /\ projects' = {p \in projects : p.client_id # out'.arg}
                  /\ tasks' = {t \in tasks : t.project_id \notin gone}
          /\ out'.op = "delete_project" =>
               /\ projects' = {p \in projects : p.id # out'.arg}
               /\ projects' # projects
               /\ tasks' = {t \in tasks : t.project_id # out'.arg}
               /\ clients' = clients /\ payments' = payments ]_vars

\* three rows were created, a client was deleted last and a row of another
\* client is all that is left
C27_Witness ==
    /\ IsApi(out) /\ out.op = "delete_client" /\ out.status = 200
    /\ nextRow = MaxRows
    /\ Cardinality(clients) = 1 /\ Cardinality(payments \cup projects) = 1
    /\ \A c \in clients : c.id # out.arg

\* a project was deleted last and its task went with it
C27_ProjectGone ==
    /\ IsApi(out) /\ out.op = "delete_project" /\ out.status = 200
    /\ nextRow = MaxRows /\ Cardinality(clients) = 1
    /\ projects = {} /\ tasks = {} /\ payments = {}

C29_BadRequestWritesNothing ==
    [][ (IsApi(out') /\ out'.op \in {"update_task", "update_project"}
                     /\ out'.status = 400)
          => /\ resources' = resources
             /\ pc' = pc /\ req' = req ]_vars

\* a task update naming a missing project was refused
C29_Witness ==
    /\ IsApi(out) /\ out.op = "update_task" /\ out.status = 400
    /\ out.msg = "Project not found or does not belong to you"
    /\ \E t \in tasks : t.id = out.arg /\ t.title = "A" /\ t.project_id = 2

\* a project update with an unreadable date, and one naming a missing
\* client, were refused
C29_ProjectDate ==
    /\ IsApi(out) /\ out.op = "update_project" /\ out.status = 400
    /\ out.msg = "Invalid start date format"
    /\ \E p \in projects : p.id = out.arg /\ p.name = "A"

C29_ProjectClient ==
    /\ IsApi(out) /\ out.op = "update_project" /\ out.status = 400
    /\ out.msg = "Client not found or does not belong to you"
    /\ \E p \in projects : p.id = out.arg /\ p.client_id = 1

\* the messages of login
LoginMessages ==
    {"Login successful", "Invalid email or password", "Email and password are required"}

\* C30: login answers an email that is not registered exactly as it answers
\* a registered email with a password other than the user's, 401 'Invalid
\* email or password' and nothing else in the response, and a login step,
\* whatever it answers, leaves every table as it was.
C30_LoginUniformNoWrite ==
    [][ /\ \A e \in Emails, p \in Passwords :
             (\/ UsersByEmail(e) = {}
              \/ \E u \in users : u.email = e /\ signupPw[u.id] # p)
                => LoginResp(e, p) = Resp(401, "Invalid email or password")
        /\ (pc' = pc /\ ~IsApi(out') /\ out'.msg \in LoginMessages)
             => /\ users' = users /\ nextId' = nextId
                /\ tokens' = tokens /\ nextTok' = nextTok
                /\ resources' = resources ]_vars

\* two users are registered and a login was refused: the email was the
\* third one, or the password was not the user's
C30_Witness ==
    /\ Cardinality(users) = 2
    /\ out = Resp(401, "Invalid email or password")

\* a login was refused while nobody was registered
C30_UnknownEmail ==
    /\ users = {}
    /\ out = Resp(401, "Invalid email or password")

====
